---- MODULE Spec2Model ----
(***************************************************************************)
(* linkding-mcp: the request/response translation layer between the MCP    *)
(* tool-call protocol and the Linkding REST API.                           *)
(*                                                                         *)
(* Two adapters exist in the sources and both are modelled:                *)
(*   "sdk": MCPServer (internal/server), whose typed handlers are          *)
(*          registered with the MCP toolkit by NewMCP;                     *)
(*   "raw": Server (package mcp), hand-rolled over JSON-RPC framing.       *)
(* Both call the same Client (pkg/linkding).                               *)
(*                                                                         *)
(* Specifications.                                                         *)
(*   Spec       a request served by either adapter: the handler runs up to *)
(*              httpClient.Do, waits there, and runs on to its return,     *)
(*              while another goroutine uses the same Client;              *)
(*   ClientSpec a Client operation called on its own, in the same steps;   *)
(*   LoopSpec   Server.Run, the line-oriented loop, step by step;          *)
(*   LoopLive   the same with the waiting time of a request in flight      *)
(*              followed to its end, under weak fairness;                  *)
(*   HTTPSpec   MCPServer.RunHTTP, invocations executing concurrently.     *)
(*                                                                         *)
(* Conventions.                                                            *)
(*  - An optional value (a Go pointer / nil-able) is a sequence of length  *)
(*    0 or 1.                                                              *)
(*  - A text is the sequence of pieces fmt.Sprintf and += concatenate:     *)
(*    Lit(s) is a literal of the format string, Str/Dec/List a formatted   *)
(*    operand.  Joining the pieces gives the bytes the program emits.      *)
(*  - TLA+ strings are ASCII: the bullet U+2022 is written "(U+2022)" and  *)
(*    the check mark U+2705 "(U+2705)".                                    *)
(*  - A JSON number is kept as its count of halves (5 is 10, 2.5 is 5), so *)
(*    that Go's float64 -> int conversion truncates something.             *)
(*  - One call of httpClient.Do may put several requests on the wire: the  *)
(*    http.Client follows redirects and its Transport repeats a request    *)
(*    whose reused connection broke.  An exchange is a request with what   *)
(*    met it; `wire` lists the exchanges of one call in order.             *)
(***************************************************************************)
EXTENDS Integers, Sequences, FiniteSets, TLC

VARIABLES
    client,   \* the Client built by NewClient: baseURL, apiToken, timeout
    impl,     \* which adapter serves the request in hand: "none", "sdk", "raw"
    req,      \* the request in hand, as the adapter received it
    out,      \* the response to it: ID, Result, Error, Structured
    calls,    \* the Client operations the handler invoked, in order
    wire,     \* the HTTP exchanges httpClient.Do performed for it, in order
    ret,      \* what a Client operation called on its own returned
    pc,       \* where Server.Run stands: "off" when it is not running
    decoded,  \* Server.Run: the requests decoded from the input so far
    stdout,   \* Server.Run: the responses encoded to the output so far
    runErr,   \* Server.Run: the error it returned with, if it returned
    inflight, \* the HTTP requests handed to httpClient.Do and not yet back
    elapsed,  \* seconds the request in flight has been waited for
    tasks,    \* RunHTTP: the tool invocations executing concurrently
    keptAlive \* a connection to the remote has been used and may be idle

\* The variables of the line-oriented loop and of the concurrent transport.
loop == <<pc, decoded, stdout, runErr, inflight, elapsed>>
vars == <<client, impl, req, out, calls, wire, ret, loop, tasks, keptAlive>>

----------------------------------------------------------------------------
(* Bounds of the model.                                                    *)

\* Longest result page the remote service returns.
MaxResults == 2

\* Most requests Server.Run decodes in one session.
MaxRequests == 2

\* The same, where the waiting time of each request is followed to its end.
MaxLiveRequests == 1

\* Most tool invocations executing at once under RunHTTP.
MaxTasks == 2

----------------------------------------------------------------------------
(* Program constants.                                                      *)

DefaultSearchLimit == 20
DefaultTagsLimit == 50
ClientTimeoutSeconds == 30
CodeMethodNotFound == -32601
CodeInvalidParams == -32602
StatusOK == 200
StatusCreated == 201
StatusNoContent == 204

----------------------------------------------------------------------------
(* Optional values.                                                        *)

None == <<>>
Some(v) == <<v>>

----------------------------------------------------------------------------
(* Text pieces.                                                            *)

Lit(s) == [lit |-> s]
Str(s) == [str |-> s]
Dec(n) == [dec |-> n]
List(t) == [list |-> t]

----------------------------------------------------------------------------
(* JSON values as encoding/json decodes them into `any`.                   *)

JNull == [t |-> "null"]
JStr(s) == [t |-> "str", s |-> s]
JNum(halves) == [t |-> "num", halves |-> halves]
JArr(items) == [t |-> "arr", items |-> items]
JObj(members) == [t |-> "obj", members |-> members]

\* A JSON object with no members (also: a nil map[string]any).
EmptyMap == [k \in {} |-> JNull]

\* v.(string): the value and ok.
AsString(m, k) ==
    IF k \in DOMAIN m /\ m[k].t = "str"
    THEN [val |-> m[k].s, ok |-> TRUE]
    ELSE [val |-> "", ok |-> FALSE]

\* int(l) for a float64 l: truncation toward zero.
IntOfFloat(halves) ==
    IF halves >= 0 THEN halves \div 2 ELSE -((-halves) \div 2)

----------------------------------------------------------------------------
(* Data of the remote service.                                             *)

Bookmark(id, url, title, description, tagNames) ==
    [ID |-> id, URL |-> url, Title |-> title,
     Description |-> description, TagNames |-> tagNames]

BookmarkA == Bookmark(7, "https://a.test", "", "", <<>>)
BookmarkB == Bookmark(8, "https://b.test", "B", "about b", <<>>)
BookmarkC == Bookmark(9, "https://c.test", "C", "", <<"go", "web">>)
BookmarkD == Bookmark(10, "https://d.test", "D", "about d", <<"go">>)
Bookmarks == {BookmarkA, BookmarkB, BookmarkC, BookmarkD}

Tag(id, name) == [ID |-> id, Name |-> name]
Tags == {Tag(1, "go"), Tag(2, "web"), Tag(3, "")}

\* Sequences over S of length at most n.
SeqsUpTo(S, n) == UNION {[1..k -> S] : k \in 0..n}

\* A decoded page: Count is the remote's total, Results the page itself.
Page(results, count) == [Count |-> count, Results |-> results]
PagesOf(S) ==
    UNION {{Page(r, Len(r)), Page(r, Len(r) + 3)} : r \in SeqsUpTo(S, MaxResults)}

----------------------------------------------------------------------------
(* What the remote service does with one request: the transport fails, or  *)
(* it answers with a status and a body; the body either decodes into the   *)
(* Go type the operation expects or does not.  It may also answer with a   *)
(* redirect, or close a connection the Transport kept alive; `next` is     *)
(* then what meets the request net/http sends after that.                  *)

TransportFailures == {"connection refused", "Client.Timeout exceeded"}
Undecodable == [decodes |-> FALSE]
Decodes(v) == [decodes |-> TRUE, val |-> v]

Failure(cause) == [kind |-> "transport", cause |-> cause]
Answer(status, body) == [kind |-> "http", status |-> status, body |-> body]

\* A 301, 302, 303, 307 or 308 with a Location header: relative (base "")
\* or on a host of its own.
Location(base, path) == [base |-> base, path |-> path]
Redirect(status, location, next) ==
    [kind |-> "redirect", status |-> status, location |-> location,
     next |-> next]

\* The kept-alive connection taken for the request fails before any byte
\* of a response: after the request was written to it, or before any of it
\* was.
Stale(cause, written, next) ==
    [kind |-> "stale", cause |-> cause, written |-> written, next |-> next]

Moved == Location("", "/api/v2/")
Elsewhere == Location("https://elsewhere.example.com", "/")
ElsewhereOn == Location("", "/on/")
Subdomain == Location("https://api.linkding.example.com", "/")
Downgraded == Location("http://linkding.example.com", "/")
Home == Location("https://linkding.example.com", "/api/v2/")

\* Longer ways round: to a subdomain of the remote's host, to the remote's
\* host over plain http, to another host and on within it, to another host
\* and back, to the subdomain and back, and a redirect that drops the body
\* before one that keeps it.
LongDetours(final) ==
    {Redirect(307, Subdomain, final),
     Redirect(302, Downgraded, final),
     Redirect(307, Elsewhere, Redirect(307, ElsewhereOn, final)),
     Redirect(307, Elsewhere, Redirect(307, Home, final)),
     Redirect(307, Subdomain, Redirect(307, Home, final)),
     Redirect(301, Moved, Redirect(307, Moved, final))}

\* Ways round to a reply: a redirect on the remote's host that turns a POST
\* into a GET, one to another host that keeps method and body, and a stale
\* connection, the request written to it or not.
Detours(final) ==
    {Redirect(301, Moved, final), Redirect(307, Elsewhere, final),
     Stale("EOF", TRUE, final), Stale("broken pipe", FALSE, final)}

\* The remote redirects `n` times in a row, each time to the same place.
RECURSIVE RedirectLoop(_)
RedirectLoop(n) ==
    IF n = 0 THEN Answer(StatusOK, Undecodable)
    ELSE Redirect(302, Moved, RedirectLoop(n - 1))

\* A stale connection takes a connection used before: one of an earlier
\* exchange, or of the redirect just followed.
RECURSIVE Admissible(_, _)
Admissible(remote, alive) ==
    CASE remote.kind = "stale" -> alive /\ Admissible(remote.next, alive)
      [] remote.kind = "redirect" -> Admissible(remote.next, TRUE)
      [] OTHER -> TRUE

FailedReplies ==
    {Failure(c) : c \in TransportFailures}
    \cup {Answer(s, Undecodable) : s \in {404, 500}}

BookmarkListReplies ==
    FailedReplies
    \cup Detours(Answer(StatusOK, Decodes(Page(<<BookmarkB>>, 1))))
    \cup Detours(Failure("connection refused"))
    \cup {Answer(StatusOK, Undecodable), Answer(StatusCreated, Decodes(Page(<<>>, 0)))}
    \cup {Answer(StatusOK, Decodes(p)) : p \in PagesOf(Bookmarks)}

TagListReplies ==
    FailedReplies
    \cup Detours(Answer(StatusOK, Decodes(Page(<<Tag(1, "go")>>, 1))))
    \cup {RedirectLoop(9), RedirectLoop(10)}
    \cup LongDetours(Answer(StatusOK, Decodes(Page(<<Tag(1, "go")>>, 1))))
    \cup {Answer(StatusOK, Undecodable), Answer(StatusNoContent, Undecodable)}
    \cup {Answer(StatusOK, Decodes(p)) : p \in PagesOf(Tags)}

CreateReplies ==
    FailedReplies
    \cup Detours(Answer(StatusCreated, Decodes(BookmarkB)))
    \cup Detours(Answer(StatusOK, Decodes(BookmarkB)))
    \cup LongDetours(Answer(StatusCreated, Decodes(BookmarkB)))
    \cup {Answer(StatusCreated, Undecodable), Answer(StatusOK, Decodes(BookmarkA))}
    \cup {Answer(StatusCreated, Decodes(b)) : b \in Bookmarks}

----------------------------------------------------------------------------
(* Client (pkg/linkding).                                                  *)

\* An error value is its message: a sequence of pieces.  Cause(x) stands for
\* the text of an error produced below the Client (net/http, encoding/json).
Cause(x) == [cause |-> x]

\* Base URLs the operator may configure.  main only requires a non-empty
\* string; one with a control character does not parse as a URL.
GoodBaseURL == "https://linkding.example.com"
BadBaseURL == "https://linkding.example.com\n"
BaseURLs == {GoodBaseURL, BadBaseURL}
APIToken == "secret-token"

\* url.Parse inside http.NewRequestWithContext, on baseURL + endpoint.
URLParses(baseURL) == baseURL # BadBaseURL

\* Variant: the http.Client is built without a Timeout.
NewClient_NoTimeout(baseURL, apiToken) ==
    [baseURL |-> baseURL, apiToken |-> apiToken, timeout |-> 0]

NewClient(baseURL, apiToken) ==
    [baseURL |-> baseURL, apiToken |-> apiToken,
     timeout |-> ClientTimeoutSeconds]

\* The outcome of a Client step: a value or an error, and the HTTP
\* exchanges performed on the way.
Returned(v, sent) == [val |-> Some(v), err |-> None, sent |-> sent]
Failed(e, sent) == [val |-> None, err |-> Some(e), sent |-> sent]

\* url.Parse of the base URLs the model draws: the scheme, and the hostname
\* as its labels.
ParsedURL(base) ==
    CASE base = "https://linkding.example.com" ->
             [scheme |-> "https", host |-> <<"linkding", "example", "com">>]
      [] base = "http://linkding.example.com" ->
             [scheme |-> "http", host |-> <<"linkding", "example", "com">>]
      [] base = "https://api.linkding.example.com" ->
             [scheme |-> "https",
              host |-> <<"api", "linkding", "example", "com">>]
      [] base = "https://elsewhere.example.com" ->
             [scheme |-> "https", host |-> <<"elsewhere", "example", "com">>]

\* net/http's isDomainOrSubdomain: `sub` is `parent` or ends with
\* "." + parent.
IsDomainOrSubdomain(sub, parent) ==
    /\ Len(sub) >= Len(parent)
    /\ SubSeq(sub, Len(sub) - Len(parent) + 1, Len(sub)) = parent

\* The request net/http sends to follow a redirect, `sent` being the
\* exchanges before the one redirected.  After a 301, 302 or 303 a method
\* other than GET and HEAD becomes GET and there is no body; after a 307 or
\* 308 the method stays and the body of the first request is sent again
\* (it is a bytes.Buffer, so GetBody is set).  The headers of the first
\* request are copied, Authorization only to the hostname it was set for or
\* a subdomain of it, and Referer names the request before unless that one
\* was https and this one is http.  Releases of net/http differ, and src/
\* fixes none: Authorization is withheld once a request has left the first
\* hostname and its subdomains, or is judged on the hostname of the request
\* before alone; the body is not sent again once a redirect has dropped
\* it, or is; Content-Type is copied without a body, or is not.  Where they
\* differ the header is in `maybe` and the body in `maybeBody`, not in
\* `header` and `body`.
Redirected(first, request, remote, sent) ==
    LET keepsBody == remote.status \in {307, 308}
        base == IF remote.location.base = "" THEN request.base
                ELSE remote.location.base
        Host(b) == ParsedURL(b).host
        Within(b) == IsDomainOrSubdomain(Host(b), Host(first.base))
        stays == /\ Within(base) /\ Within(request.base)
                 /\ \A k \in DOMAIN sent : Within(sent[k].request.base)
        fromBefore == IsDomainOrSubdomain(Host(base), Host(request.base))
        dropped == \E k \in DOMAIN sent :
                      /\ sent[k].reply.kind = "redirect"
                      /\ sent[k].reply.status \notin {307, 308}
        withBody == keepsBody /\ ~dropped
        maybe == (IF ~withBody THEN {"Content-Type"} ELSE {})
                 \cup (IF stays # fromBefore THEN {"Authorization"} ELSE {})
        copied == (DOMAIN first.header \ maybe)
                  \ (IF ~stays THEN {"Authorization"} ELSE {})
        referer == IF /\ ParsedURL(request.base).scheme = "https"
                      /\ ParsedURL(base).scheme = "http"
                   THEN {} ELSE {"Referer"}
    IN  [method |-> IF ~keepsBody /\ request.method \notin {"GET", "HEAD"}
                    THEN "GET" ELSE request.method,
         base |-> base,
         path |-> remote.location.path,
         query |-> <<>>,
         header |-> [n \in referer |->
                        <<[base |-> request.base, path |-> request.path,
                           query |-> request.query]>>]
                    @@ [n \in copied |-> first.header[n]],
         maybe |-> maybe \cap DOMAIN first.header,
         body |-> IF withBody THEN first.body ELSE None,
         maybeBody |-> IF keepsBody /\ dropped THEN first.body ELSE None]

\* The Transport sends a request again on a fresh connection when nothing
\* of it was written (the body, a bytes.Buffer, can be rewound), and
\* otherwise only when its method is one net/http holds idempotent.
Replayable(request) == request.method \in {"GET", "HEAD", "OPTIONS", "TRACE"}

\* httpClient.Do(req) of an http.Client with no CheckRedirect: the requests
\* it puts on the wire, `sent` before this one and `reqs` of them its own
\* (the Transport's repeats not counted), and what it returns.
RECURSIVE HTTPClient_send(_, _, _, _, _)
HTTPClient_send(first, request, remote, sent, reqs) ==
    LET now == Append(sent, [request |-> request, reply |-> remote])
    IN  CASE remote.kind = "transport" ->
                 Failed(<<Cause(remote.cause)>>, now)
          [] remote.kind = "http" ->
                 Returned([StatusCode |-> remote.status, Body |-> remote.body],
                          now)
          [] remote.kind = "stale" ->
                 IF ~remote.written \/ Replayable(request)
                 THEN HTTPClient_send(first, request, remote.next, now, reqs)
                 ELSE Failed(<<Cause(remote.cause)>>, now)
          [] remote.kind = "redirect" ->
                 IF reqs >= 10
                 THEN Failed(<<Cause("stopped after 10 redirects")>>, now)
                 ELSE HTTPClient_send(first,
                                      Redirected(first, request, remote, sent),
                                      remote.next, now, reqs + 1)

\* Variant: a request the transport failed on is sent a second time.
HTTPClient_Do_Retry(request, remote) ==
    IF remote.kind = "transport"
    THEN Failed(<<Cause(remote.cause)>>,
                <<[request |-> request, reply |-> remote],
                  [request |-> request, reply |-> remote]>>)
    ELSE HTTPClient_send(request, request, remote, <<>>, 1)

HTTPClient_Do(request, remote) ==
    HTTPClient_send(request, request, remote, <<>>, 1)

\* Variant: the Content-Type header is set on every request.
makeRequest_AlwaysContentType(c, method, endpoint, body, remote) ==
    IF ~URLParses(c.baseURL)
    THEN Failed(<<Lit("failed to create request: "), Cause("parse")>>, <<>>)
    ELSE LET header ==
                 [n \in {"Authorization"} |-> <<"Token ", c.apiToken>>]
                 @@ [n \in {"Content-Type"} |-> <<"application/json">>]
             request == [method |-> method, base |-> c.baseURL,
                         path |-> endpoint.path, query |-> endpoint.query,
                         header |-> header, body |-> body]
         IN  HTTPClient_Do(request, remote)

\* makeRequest: build the request, set the headers, and hand it to
\* httpClient.Do once.  `body` is None or Some(the marshalled JSON object);
\* json.Marshal cannot fail on CreateBookmarkRequest.  `remote` is what the
\* remote service does with the request.
makeRequest(c, method, endpoint, body, remote) ==
    IF ~URLParses(c.baseURL)
    THEN Failed(<<Lit("failed to create request: "), Cause("parse")>>, <<>>)
    ELSE LET header ==
                 [n \in {"Authorization"} |-> <<"Token ", c.apiToken>>]
                 @@ (IF body # None
                     THEN [n \in {"Content-Type"} |-> <<"application/json">>]
                     ELSE [n \in {} |-> <<>>])
             request == [method |-> method, base |-> c.baseURL,
                         path |-> endpoint.path, query |-> endpoint.query,
                         header |-> header, body |-> body]
         IN  HTTPClient_Do(request, remote)

\* An exchange got a response, so its connection may be kept alive.
KeepsAlive(sent) ==
    \E k \in DOMAIN sent : sent[k].reply.kind \in {"http", "redirect"}

\* Variant: every limit other than zero is sent.
LimitParam_NonZero(limit) ==
    IF limit # 0 THEN <<[key |-> "limit", val |-> Dec(limit)]>> ELSE <<>>

\* Variant: an offset of zero is sent too.
OffsetParam_FromZero(offset) ==
    IF offset >= 0 THEN <<[key |-> "offset", val |-> Dec(offset)]>> ELSE <<>>

\* url.Values.Set of one parameter, when its condition holds.  Encode sorts
\* by key ("limit" < "offset" < "q"), which is the order they are joined in
\* below; an empty result means no "?" is appended to the endpoint.
LimitParam(limit) ==
    IF limit > 0 THEN <<[key |-> "limit", val |-> Dec(limit)]>> ELSE <<>>
OffsetParam(offset) ==
    IF offset > 0 THEN <<[key |-> "offset", val |-> Dec(offset)]>> ELSE <<>>
\* url.QueryEscape, as url.Values.Encode applies it to a value, on the
\* queries the model draws: a space becomes "+", "&" becomes "%26", letters
\* stay as they are.
QueryEscape(s) ==
    CASE s = "go lang" -> "go+lang"
      [] s = "a&b" -> "a%26b"
      [] OTHER -> s

QueryParam(query) ==
    IF query # ""
    THEN <<[key |-> "q", val |-> Str(QueryEscape(query))]>>
    ELSE <<>>

StatusError(code) == <<Lit("API request failed with status "), Dec(code)>>
DecodeError == <<Lit("failed to decode response: "), Cause("json")>>

\* Variant: any status of the 2xx class passes the check.
CheckAndDecode_Any2xx(r, wantStatus) ==
    IF r.err # None THEN Failed(r.err[1], r.sent)
    ELSE IF r.val[1].StatusCode < 200 \/ r.val[1].StatusCode > 299
         THEN Failed(StatusError(r.val[1].StatusCode), r.sent)
    ELSE IF ~r.val[1].Body.decodes THEN Failed(DecodeError, r.sent)
    ELSE Returned(r.val[1].Body.val, r.sent)

\* The shared tail of every value-returning operation: the status check,
\* then the decode of the body.
CheckAndDecode(r, wantStatus) ==
    IF r.err # None THEN Failed(r.err[1], r.sent)
    ELSE IF r.val[1].StatusCode # wantStatus
         THEN Failed(StatusError(r.val[1].StatusCode), r.sent)
    ELSE IF ~r.val[1].Body.decodes THEN Failed(DecodeError, r.sent)
    ELSE Returned(r.val[1].Body.val, r.sent)

GetBookmarks(c, limit, offset, query, remote) ==
    LET endpoint == [path |-> "/api/bookmarks/",
                     query |-> LimitParam(limit) \o OffsetParam(offset)
                                \o QueryParam(query)]
    IN  CheckAndDecode(makeRequest(c, "GET", endpoint, None, remote), StatusOK)

GetTags(c, limit, offset, remote) ==
    LET endpoint == [path |-> "/api/tags/",
                     query |-> LimitParam(limit) \o OffsetParam(offset)]
    IN  CheckAndDecode(makeRequest(c, "GET", endpoint, None, remote), StatusOK)

CreateBookmarkRequest(url, title, description, tagNames) ==
    [URL |-> url, Title |-> title, Description |-> description, Notes |-> "",
     TagNames |-> tagNames, Unread |-> FALSE, Shared |-> FALSE,
     IsArchived |-> FALSE, DisableScraping |-> FALSE]

\* json.Marshal of a CreateBookmarkRequest: "url" always, every other
\* member only when it is not its zero value (omitempty).
MarshalCreate(r) ==
    LET present == {"url"}
            \cup (IF r.Title # "" THEN {"title"} ELSE {})
            \cup (IF r.Description # "" THEN {"description"} ELSE {})
            \cup (IF r.Notes # "" THEN {"notes"} ELSE {})
            \cup (IF Len(r.TagNames) > 0 THEN {"tag_names"} ELSE {})
            \cup (IF r.Unread THEN {"unread"} ELSE {})
            \cup (IF r.Shared THEN {"shared"} ELSE {})
            \cup (IF r.IsArchived THEN {"is_archived"} ELSE {})
            \cup (IF r.DisableScraping THEN {"disable_scraping"} ELSE {})
    IN  [k \in present |->
            CASE k = "url" -> JStr(r.URL)
              [] k = "title" -> JStr(r.Title)
              [] k = "description" -> JStr(r.Description)
              [] k = "notes" -> JStr(r.Notes)
              [] k = "tag_names" -> JArr([i \in 1..Len(r.TagNames) |-> JStr(r.TagNames[i])])
              [] OTHER -> [t |-> "bool", b |-> TRUE]]

CreateBookmark(c, r, remote) ==
    LET endpoint == [path |-> "/api/bookmarks/", query |-> <<>>]
    IN  CheckAndDecode(
            makeRequest(c, "POST", endpoint, Some(MarshalCreate(r)), remote),
            StatusCreated)

\* The outcome of an operation that returns only an error, when that error
\* is nil.
Done(sent) == [val |-> None, err |-> None, sent |-> sent]

\* The tail of every operation that returns only an error: the status check.
CheckStatus(r, wantStatus) ==
    IF r.err # None THEN Failed(r.err[1], r.sent)
    ELSE IF r.val[1].StatusCode # wantStatus
         THEN Failed(StatusError(r.val[1].StatusCode), r.sent)
    ELSE Done(r.sent)

\* fmt.Sprintf("/api/bookmarks/%d/" + suffix, id)
BookmarkPath(id, suffix) == "/api/bookmarks/" \o ToString(id) \o "/" \o suffix

UpdateBookmark(c, id, r, remote) ==
    LET endpoint == [path |-> BookmarkPath(id, ""), query |-> <<>>]
    IN  CheckAndDecode(
            makeRequest(c, "PUT", endpoint, Some(MarshalCreate(r)), remote),
            StatusOK)

DeleteBookmark(c, id, remote) ==
    LET endpoint == [path |-> BookmarkPath(id, ""), query |-> <<>>]
    IN  CheckStatus(makeRequest(c, "DELETE", endpoint, None, remote),
                    StatusNoContent)

ArchiveBookmark(c, id, remote) ==
    LET endpoint == [path |-> BookmarkPath(id, "archive/"), query |-> <<>>]
    IN  CheckStatus(makeRequest(c, "POST", endpoint, None, remote),
                    StatusNoContent)

UnarchiveBookmark(c, id, remote) ==
    LET endpoint == [path |-> BookmarkPath(id, "unarchive/"), query |-> <<>>]
    IN  CheckStatus(makeRequest(c, "POST", endpoint, None, remote),
                    StatusNoContent)

----------------------------------------------------------------------------
(* Protocol shapes shared by the two adapters.                             *)

TextContent(text) == [Type |-> "text", Text |-> text]
ToolResult(text, isError) ==
    [Content |-> <<TextContent(text)>>, IsError |-> isError]

\* A response: Result and Error are optional; Structured is the toolkit
\* handler's second return value (None for nil), absent from the raw adapter.
Response(id, result, error, structured) ==
    [ID |-> id, Result |-> result, Error |-> error, Structured |-> structured]

\* What handling one request did: the tool handler that ran ("" when none
\* did), the response, the Client operations invoked and the HTTP
\* exchanges performed.
Handled(handler, response, invoked, sent) ==
    [handler |-> handler, response |-> response, calls |-> invoked,
     sent |-> sent]

ToolNames == {"search_bookmarks", "create_bookmark", "get_tags"}

----------------------------------------------------------------------------
(* MCPServer (internal/server): typed handlers registered with the MCP     *)
(* toolkit.  The toolkit decodes the arguments into the typed shape before *)
(* the handler runs and frames the handler's return values.                *)

BookmarkResult(id, url, title, description, tags, success, message) ==
    [ID |-> id, URL |-> url, Title |-> title, Description |-> description,
     Tags |-> tags, Success |-> success, Message |-> message]
ZeroBookmarkResult == BookmarkResult(0, "", "", "", <<>>, FALSE, "")

\* Variant: the description line is written whether or not there is one.
MCPServer_BookmarkBlock_AlwaysDescription(bookmark) ==
    <<Lit("(U+2022) **"), Str(bookmark.Title), Lit("**\n  URL: "),
      Str(bookmark.URL), Lit("\n")>>
    \o <<Lit("  Description: "), Str(bookmark.Description), Lit("\n")>>
    \o (IF Len(bookmark.TagNames) > 0
        THEN <<Lit("  Tags: "), List(bookmark.TagNames), Lit("\n")>>
        ELSE <<>>)
    \o <<Lit("\n")>>

MCPServer_BookmarkBlock(bookmark) ==
    <<Lit("(U+2022) **"), Str(bookmark.Title), Lit("**\n  URL: "),
      Str(bookmark.URL), Lit("\n")>>
    \o (IF bookmark.Description # ""
        THEN <<Lit("  Description: "), Str(bookmark.Description), Lit("\n")>>
        ELSE <<>>)
    \o (IF Len(bookmark.TagNames) > 0
        THEN <<Lit("  Tags: "), List(bookmark.TagNames), Lit("\n")>>
        ELSE <<>>)
    \o <<Lit("\n")>>

RECURSIVE MCPServer_BookmarkBlocks(_)
MCPServer_BookmarkBlocks(results) ==
    IF results = <<>> THEN <<>>
    ELSE MCPServer_BookmarkBlock(Head(results))
         \o MCPServer_BookmarkBlocks(Tail(results))

\* Variant: the header counts the remote's total, not the page.
MCPServer_SearchText_Total(bookmarks) ==
    <<Lit("Found "), Dec(bookmarks.Count), Lit(" bookmarks:\n\n")>>
    \o MCPServer_BookmarkBlocks(bookmarks.Results)

MCPServer_SearchText(bookmarks) ==
    <<Lit("Found "), Dec(Len(bookmarks.Results)), Lit(" bookmarks:\n\n")>>
    \o MCPServer_BookmarkBlocks(bookmarks.Results)

MCPServer_SearchLimit(args) ==
    IF args.Limit = 0 THEN DefaultSearchLimit ELSE args.Limit

\* Variant: a Client failure is reported without the error flag.
MCPServer_handleSearchBookmarks_NoFlag(c, id, args, remote) ==
    LET limit == MCPServer_SearchLimit(args)
        r == GetBookmarks(c, limit, 0, args.Query, remote)
        invoked == <<[op |-> "GetBookmarks", limit |-> limit, offset |-> 0,
                      query |-> args.Query]>>
    IN  IF r.err # None
        THEN Handled("handleSearchBookmarks", Response(id,
                 Some(ToolResult(<<Lit("Failed to search bookmarks: ")>> \o r.err[1], FALSE)),
                 None, None), invoked, r.sent)
        ELSE Handled("handleSearchBookmarks", Response(id,
                 Some(ToolResult(MCPServer_SearchText(r.val[1]), FALSE)),
                 None, None), invoked, r.sent)

MCPServer_handleSearchBookmarks(c, id, args, remote) ==
    LET limit == MCPServer_SearchLimit(args)
        r == GetBookmarks(c, limit, 0, args.Query, remote)
        invoked == <<[op |-> "GetBookmarks", limit |-> limit, offset |-> 0,
                      query |-> args.Query]>>
    IN  IF r.err # None
        THEN Handled("handleSearchBookmarks", Response(id,
                 Some(ToolResult(<<Lit("Failed to search bookmarks: ")>> \o r.err[1], TRUE)),
                 None, None), invoked, r.sent)
        ELSE Handled("handleSearchBookmarks", Response(id,
                 Some(ToolResult(MCPServer_SearchText(r.val[1]), FALSE)),
                 None, None), invoked, r.sent)

MCPServer_CreateText(bookmark) ==
    <<Lit("(U+2705) Bookmark created successfully!\n\n(U+2022) **"),
      Str(bookmark.Title), Lit("**\n  URL: "), Str(bookmark.URL),
      Lit("\n  ID: "), Dec(bookmark.ID)>>
    \o (IF bookmark.Description # ""
        THEN <<Lit("\n  Description: "), Str(bookmark.Description)>>
        ELSE <<>>)
    \o (IF Len(bookmark.TagNames) > 0
        THEN <<Lit("\n  Tags: "), List(bookmark.TagNames)>>
        ELSE <<>>)

\* Variant: the URL check is missing.
MCPServer_handleCreateBookmark_NoCheck(c, id, args, remote) ==
    LET createReq == CreateBookmarkRequest(args.URL, args.Title,
                                           args.Description, args.Tags)
        r == CreateBookmark(c, createReq, remote)
        invoked == <<[op |-> "CreateBookmark", req |-> createReq]>>
    IN  IF r.err # None
        THEN Handled("handleCreateBookmark", Response(id,
                 Some(ToolResult(<<Lit("Failed to create bookmark: ")>> \o r.err[1], TRUE)),
                 None, Some(ZeroBookmarkResult)), invoked, r.sent)
        ELSE Handled("handleCreateBookmark", Response(id,
                 Some(ToolResult(MCPServer_CreateText(r.val[1]), FALSE)),
                 None, Some(ZeroBookmarkResult)), invoked, r.sent)

\* Variant: the structured record echoes the caller's arguments.
MCPServer_handleCreateBookmark_EchoArgs(c, id, args, remote) ==
    IF args.URL = ""
    THEN Handled("handleCreateBookmark", Response(id, Some(ToolResult(<<Lit("URL is required")>>, TRUE)),
                          None, Some(ZeroBookmarkResult)), <<>>, <<>>)
    ELSE LET createReq == CreateBookmarkRequest(args.URL, args.Title,
                                                args.Description, args.Tags)
             r == CreateBookmark(c, createReq, remote)
             invoked == <<[op |-> "CreateBookmark", req |-> createReq]>>
         IN  IF r.err # None
             THEN Handled("handleCreateBookmark", Response(id,
                      Some(ToolResult(<<Lit("Failed to create bookmark: ")>> \o r.err[1], TRUE)),
                      None, Some(ZeroBookmarkResult)), invoked, r.sent)
             ELSE Handled("handleCreateBookmark", Response(id,
                      Some(ToolResult(MCPServer_CreateText(r.val[1]), FALSE)),
                      None,
                      Some(BookmarkResult(r.val[1].ID, args.URL, args.Title,
                               args.Description, args.Tags, TRUE,
                               "Bookmark created successfully"))),
                      invoked, r.sent)

MCPServer_handleCreateBookmark(c, id, args, remote) ==
    IF args.URL = ""
    THEN Handled("handleCreateBookmark", Response(id, Some(ToolResult(<<Lit("URL is required")>>, TRUE)),
                          None, Some(ZeroBookmarkResult)), <<>>, <<>>)
    ELSE LET createReq == CreateBookmarkRequest(args.URL, args.Title,
                                                args.Description, args.Tags)
             r == CreateBookmark(c, createReq, remote)
             invoked == <<[op |-> "CreateBookmark", req |-> createReq]>>
         IN  IF r.err # None
             THEN Handled("handleCreateBookmark", Response(id,
                      Some(ToolResult(<<Lit("Failed to create bookmark: ")>> \o r.err[1], TRUE)),
                      None, Some(ZeroBookmarkResult)), invoked, r.sent)
             ELSE LET bookmark == r.val[1]
                  IN  Handled("handleCreateBookmark", Response(id,
                          Some(ToolResult(MCPServer_CreateText(bookmark), FALSE)),
                          None,
                          Some(BookmarkResult(bookmark.ID, bookmark.URL, bookmark.Title,
                                   bookmark.Description, bookmark.TagNames, TRUE,
                                   "Bookmark created successfully"))),
                          invoked, r.sent)

RECURSIVE MCPServer_TagLines(_)
MCPServer_TagLines(results) ==
    IF results = <<>> THEN <<>>
    ELSE <<Lit("(U+2022) "), Str(Head(results).Name), Lit(" (ID: "),
           Dec(Head(results).ID), Lit(")\n")>>
         \o MCPServer_TagLines(Tail(results))

\* Variant: an empty page is rendered like any other.
MCPServer_TagsText_NoSpecialCase(tags) ==
    <<Lit("Found "), Dec(Len(tags.Results)), Lit(" tags:\n\n")>>
    \o MCPServer_TagLines(tags.Results)

MCPServer_TagsText(tags) ==
    IF Len(tags.Results) = 0
    THEN <<Lit("No tags found")>>
    ELSE <<Lit("Found "), Dec(Len(tags.Results)), Lit(" tags:\n\n")>>
         \o MCPServer_TagLines(tags.Results)

MCPServer_TagsLimit(args) ==
    IF args.Limit = 0 THEN DefaultTagsLimit ELSE args.Limit

MCPServer_handleGetTags(c, id, args, remote) ==
    LET limit == MCPServer_TagsLimit(args)
        r == GetTags(c, limit, 0, remote)
        invoked == <<[op |-> "GetTags", limit |-> limit, offset |-> 0]>>
    IN  IF r.err # None
        THEN Handled("handleGetTags", Response(id,
                 Some(ToolResult(<<Lit("Failed to get tags: ")>> \o r.err[1], TRUE)),
                 None, None), invoked, r.sent)
        ELSE Handled("handleGetTags", Response(id,
                 Some(ToolResult(MCPServer_TagsText(r.val[1]), FALSE)),
                 None, None), invoked, r.sent)

\* NewMCP: the tools registered with the toolkit, each with its handler.
NewMCP_Tools ==
    [search_bookmarks |-> "handleSearchBookmarks",
     create_bookmark |-> "handleCreateBookmark",
     get_tags |-> "handleGetTags"]

\* The toolkit's call of a registered tool: the handler NewMCP bound to the
\* name runs on the decoded arguments.  Only registered names are modelled;
\* what the toolkit answers to an unregistered name, or to arguments it
\* cannot decode, is decided outside the repository.
MCPServer_callTool(c, id, name, args, remote) ==
    CASE NewMCP_Tools[name] = "handleSearchBookmarks" ->
             MCPServer_handleSearchBookmarks(c, id, args, remote)
      [] NewMCP_Tools[name] = "handleCreateBookmark" ->
             MCPServer_handleCreateBookmark(c, id, args, remote)
      [] NewMCP_Tools[name] = "handleGetTags" ->
             MCPServer_handleGetTags(c, id, args, remote)

----------------------------------------------------------------------------
(* Server (package mcp): the hand-rolled adapter over JSON-RPC framing.    *)

MCPError(code, message) == [Code |-> code, Message |-> message]

\* Variant: the error response also carries the message as a tool result.
ErrorResponse_WithResult(id, code, message) ==
    Response(id, Some(ToolResult(<<Lit(message)>>, TRUE)),
             Some(MCPError(code, message)), None)

ErrorResponse(id, code, message) ==
    Response(id, None, Some(MCPError(code, message)), None)

Server_BookmarkBlock(bookmark) ==
    <<Lit("(U+2022) **"), Str(bookmark.Title), Lit("**\n  URL: "),
      Str(bookmark.URL), Lit("\n")>>
    \o (IF bookmark.Description # ""
        THEN <<Lit("  Description: "), Str(bookmark.Description), Lit("\n")>>
        ELSE <<>>)
    \o (IF Len(bookmark.TagNames) > 0
        THEN <<Lit("  Tags: "), List(bookmark.TagNames), Lit("\n")>>
        ELSE <<>>)
    \o <<Lit("\n")>>

RECURSIVE Server_BookmarkBlocks(_)
Server_BookmarkBlocks(results) ==
    IF results = <<>> THEN <<>>
    ELSE Server_BookmarkBlock(Head(results))
         \o Server_BookmarkBlocks(Tail(results))

Server_SearchText(bookmarks) ==
    <<Lit("Found "), Dec(Len(bookmarks.Results)), Lit(" bookmarks:\n\n")>>
    \o Server_BookmarkBlocks(bookmarks.Results)

\* limit := 20; if l, ok := args["limit"].(float64); ok { limit = int(l) }
Server_SearchLimit(args) ==
    IF "limit" \in DOMAIN args /\ args["limit"].t = "num"
    THEN IntOfFloat(args["limit"].halves)
    ELSE DefaultSearchLimit

Server_handleSearchBookmarks(c, id, args, remote) ==
    LET query == AsString(args, "query").val
        limit == Server_SearchLimit(args)
        r == GetBookmarks(c, limit, 0, query, remote)
        invoked == <<[op |-> "GetBookmarks", limit |-> limit, offset |-> 0,
                      query |-> query]>>
    IN  IF r.err # None
        THEN Handled("handleSearchBookmarks", Response(id,
                 Some(ToolResult(<<Lit("Failed to search bookmarks: ")>> \o r.err[1], TRUE)),
                 None, None), invoked, r.sent)
        ELSE Handled("handleSearchBookmarks", Response(id,
                 Some(ToolResult(Server_SearchText(r.val[1]), FALSE)),
                 None, None), invoked, r.sent)

\* The strings of args["tags"].([]interface{}); anything else is skipped.
RECURSIVE StringItems(_)
StringItems(items) ==
    IF items = <<>> THEN <<>>
    ELSE (IF Head(items).t = "str" THEN <<Head(items).s>> ELSE <<>>)
         \o StringItems(Tail(items))

Server_TagNames(args) ==
    IF "tags" \in DOMAIN args /\ args["tags"].t = "arr"
    THEN StringItems(args["tags"].items)
    ELSE <<>>

Server_CreateText(bookmark) ==
    <<Lit("(U+2705) Bookmark created successfully!\n\n(U+2022) **"),
      Str(bookmark.Title), Lit("**\n  URL: "), Str(bookmark.URL),
      Lit("\n  ID: "), Dec(bookmark.ID)>>
    \o (IF bookmark.Description # ""
        THEN <<Lit("\n  Description: "), Str(bookmark.Description)>>
        ELSE <<>>)
    \o (IF Len(bookmark.TagNames) > 0
        THEN <<Lit("\n  Tags: "), List(bookmark.TagNames)>>
        ELSE <<>>)

Server_handleCreateBookmark(c, id, args, remote) ==
    LET url == AsString(args, "url")
    IN  IF ~url.ok \/ url.val = ""
        THEN Handled("handleCreateBookmark",
                     Response(id, Some(ToolResult(<<Lit("URL is required")>>, TRUE)),
                              None, None), <<>>, <<>>)
        ELSE LET createReq == CreateBookmarkRequest(url.val,
                                  AsString(args, "title").val,
                                  AsString(args, "description").val,
                                  Server_TagNames(args))
                 r == CreateBookmark(c, createReq, remote)
                 invoked == <<[op |-> "CreateBookmark", req |-> createReq]>>
             IN  IF r.err # None
                 THEN Handled("handleCreateBookmark", Response(id,
                          Some(ToolResult(<<Lit("Failed to create bookmark: ")>> \o r.err[1], TRUE)),
                          None, None), invoked, r.sent)
                 ELSE Handled("handleCreateBookmark", Response(id,
                          Some(ToolResult(Server_CreateText(r.val[1]), FALSE)),
                          None, None), invoked, r.sent)

\* The object keys encoding/json takes for a field of ToolCallParams: the
\* field's name in any letter case.  These are the spellings the model
\* draws, in byte order, which is the order json.Marshal writes the keys of
\* request.Params in and so the order json.Unmarshal meets them in.
FieldKeys(field) ==
    CASE field = "name" -> <<"NAME", "Name", "name">>
      [] field = "arguments" -> <<"ARGUMENTS", "Arguments", "arguments">>

\* The values an object holds for a field, in the order Unmarshal meets them.
FieldValues(m, field) ==
    LET Present(k) == k \in DOMAIN m
        keys == SelectSeq(FieldKeys(field), Present)
    IN  [i \in 1..Len(keys) |-> m[keys[i]]]

\* Unmarshal of successive values into one map[string]any: null sets it to
\* nil, an object is merged into the map as it stands.
RECURSIVE MergedArguments(_)
MergedArguments(values) ==
    IF values = <<>> THEN EmptyMap
    ELSE LET last == values[Len(values)]
             before == MergedArguments(SubSeq(values, 1, Len(values) - 1))
         IN  IF last.t = "obj" THEN last.members @@ before
             ELSE IF last.t = "null" THEN EmptyMap
             ELSE before

\* json.Marshal(request.Params) then json.Unmarshal into ToolCallParams
\* {Name string; Arguments map[string]any}.  A JSON null leaves a string
\* as it is and empties a map; the last string given for name stays; a
\* value of the wrong JSON type is an error.
DecodeToolCallParams(params) ==
    IF params = None \/ params[1].t = "null"
    THEN [ok |-> TRUE, Name |-> "", Arguments |-> EmptyMap]
    ELSE IF params[1].t # "obj"
    THEN [ok |-> FALSE, Name |-> "", Arguments |-> EmptyMap]
    ELSE LET names == FieldValues(params[1].members, "name")
             args == FieldValues(params[1].members, "arguments")
             IsString(v) == v.t = "str"
             strings == SelectSeq(names, IsString)
         IN  [ok |-> /\ \A i \in 1..Len(names) : names[i].t \in {"null", "str"}
                     /\ \A i \in 1..Len(args) : args[i].t \in {"null", "obj"},
              Name |-> IF strings # <<>> THEN strings[Len(strings)].s ELSE "",
              Arguments |-> MergedArguments(args)]

\* Variant: the default branch answers with the invalid-params code.
Server_handleToolsCall_WrongCode(c, request, remote) ==
    LET params == DecodeToolCallParams(request.Params)
    IN  IF ~params.ok
        THEN Handled("", ErrorResponse(request.ID, CodeInvalidParams, "Invalid params"),
                     <<>>, <<>>)
        ELSE CASE params.Name = "search_bookmarks" ->
                      Server_handleSearchBookmarks(c, request.ID, params.Arguments, remote)
               [] params.Name = "create_bookmark" ->
                      Server_handleCreateBookmark(c, request.ID, params.Arguments, remote)
               [] OTHER ->
                      Handled("", ErrorResponse(request.ID, CodeInvalidParams, "Tool not found"),
                              <<>>, <<>>)

Server_handleToolsCall(c, request, remote) ==
    LET params == DecodeToolCallParams(request.Params)
    IN  IF ~params.ok
        THEN Handled("", ErrorResponse(request.ID, CodeInvalidParams, "Invalid params"),
                     <<>>, <<>>)
        ELSE CASE params.Name = "search_bookmarks" ->
                      Server_handleSearchBookmarks(c, request.ID, params.Arguments, remote)
               [] params.Name = "create_bookmark" ->
                      Server_handleCreateBookmark(c, request.ID, params.Arguments, remote)
               [] OTHER ->
                      Handled("", ErrorResponse(request.ID, CodeMethodNotFound, "Tool not found"),
                              <<>>, <<>>)

Server_handleInitialize(request) ==
    Handled("", Response(request.ID,
                    Some([ProtocolVersion |-> "2024-11-05",
                          ServerInfo |-> [Name |-> "linkding-mcp", Version |-> "1.0.0"],
                          Capabilities |-> {"tools"}]),
                    None, None), <<>>, <<>>)

\* Variant: tools/list advertises get_tags as well.
Server_ToolList_WithGetTags ==
    <<[name |-> "search_bookmarks",
       description |-> "Search bookmarks in Linkding",
       properties |-> {"query", "limit"}, required |-> {}],
      [name |-> "create_bookmark",
       description |-> "Create a new bookmark",
       properties |-> {"url", "title", "description", "tags"},
       required |-> {"url"}],
      [name |-> "get_tags",
       description |-> "Get all available tags from Linkding",
       properties |-> {"limit"}, required |-> {}]>>

\* The tool descriptors of tools/list, in order.
Server_ToolList ==
    <<[name |-> "search_bookmarks",
       description |-> "Search bookmarks in Linkding",
       properties |-> {"query", "limit"}, required |-> {}],
      [name |-> "create_bookmark",
       description |-> "Create a new bookmark",
       properties |-> {"url", "title", "description", "tags"},
       required |-> {"url"}]>>

Server_handleToolsList(request) ==
    Handled("", Response(request.ID, Some([tools |-> Server_ToolList]), None, None),
            <<>>, <<>>)

Server_handleRequest(c, request, remote) ==
    CASE request.Method = "initialize" -> Server_handleInitialize(request)
      [] request.Method = "notifications/initialized" ->
             Handled("", Response(request.ID, None, None, None), <<>>, <<>>)
      [] request.Method = "tools/list" -> Server_handleToolsList(request)
      [] request.Method = "tools/call" -> Server_handleToolsCall(c, request, remote)
      [] OTHER ->
             Handled("", ErrorResponse(request.ID, CodeMethodNotFound, "Method not found"),
                     <<>>, <<>>)

----------------------------------------------------------------------------
(* The requests and arguments the model draws from.                        *)

IDs == {1, 2}

\* Typed arguments, as the toolkit hands them to MCPServer's handlers; an
\* omitted member is the zero value of its type.
SearchBookmarksArgs == [Query : {"", "golang"}, Limit : {0, 5, -1}]
CreateBookmarkArgs ==
    [URL : {"", "https://x.test"}, Title : {"", "X"},
     Description : {"", "about x"}, Tags : {<<>>, <<"go", "web">>}]
GetTagsArgs == [Limit : {0, 5, -1}]

SdkArgs(name) ==
    CASE name = "search_bookmarks" -> SearchBookmarksArgs
      [] name = "create_bookmark" -> CreateBookmarkArgs
      [] name = "get_tags" -> GetTagsArgs

\* The remote's possible replies to the operation a tool leads to.
RepliesFor(name) ==
    CASE name = "search_bookmarks" -> BookmarkListReplies
      [] name = "create_bookmark" -> CreateReplies
      [] name = "get_tags" -> TagListReplies
      [] OTHER -> {Failure("connection refused")}

\* A JSON object with the given member, or without it when val is None.
Member(key, val) ==
    IF val = None THEN EmptyMap ELSE [k \in {key} |-> val[1]]

\* Untyped argument mappings for the raw adapter: members absent, of the
\* right JSON type, or of a wrong one.  10 halves is 5, 5 halves is 2.5.
RawSearchArguments ==
    {Member("query", q) @@ Member("limit", l) :
        q \in {None, Some(JStr("golang")), Some(JNum(4))},
        l \in {None, Some(JNum(0)), Some(JNum(10)), Some(JNum(5)),
               Some(JNum(-2)), Some(JStr("ten"))}}

RawCreateArguments ==
    {Member("url", u) @@ Member("title", t) @@ Member("description", d)
        @@ Member("tags", g) :
        u \in {None, Some(JStr("")), Some(JStr("https://x.test")), Some(JNum(14))},
        t \in {None, Some(JStr("X"))},
        d \in {None, Some(JStr("about x"))},
        g \in {None, Some(JArr(<<JStr("go"), JNum(2), JStr("web")>>)),
               Some(JStr("go"))}}

RawArgumentsFor(name) ==
    CASE name = "search_bookmarks" -> RawSearchArguments
      [] name = "create_bookmark" -> RawCreateArguments
      [] OTHER -> {EmptyMap, Member("limit", Some(JNum(10)))}

RawNames == ToolNames \cup {"delete_bookmark"}

\* Params whose keys are spelt in another letter case, alone or next to the
\* lower-case spelling.
MiscasedCallParams ==
    {Some(JObj([k \in {"Name", "arguments"} |->
                  IF k = "Name" THEN JStr("search_bookmarks")
                  ELSE JObj(Member("query", Some(JStr("golang"))))])),
     Some(JObj([k \in {"name", "Arguments"} |->
                  IF k = "name" THEN JStr("create_bookmark")
                  ELSE JObj(Member("url", Some(JStr("https://x.test"))))])),
     Some(JObj(Member("NAME", Some(JStr("create_bookmark"))))),
     Some(JObj(Member("Name", Some(JStr("delete_bookmark"))))),
     Some(JObj([k \in {"Name", "name"} |->
                  IF k = "Name" THEN JStr("get_tags")
                  ELSE JStr("search_bookmarks")])),
     Some(JObj([k \in {"Name", "name"} |->
                  IF k = "Name" THEN JStr("search_bookmarks") ELSE JNull])),
     Some(JObj([k \in {"Name", "name"} |->
                  IF k = "Name" THEN JNum(4) ELSE JStr("search_bookmarks")])),
     Some(JObj([k \in {"name", "Arguments", "arguments"} |->
                  CASE k = "name" -> JStr("search_bookmarks")
                    [] k = "Arguments" -> JObj(Member("query", Some(JStr("golang"))))
                    [] k = "arguments" -> JObj(Member("limit", Some(JNum(10))))]))}

\* The params of a tools/call: missing, not an object, or an object whose
\* name and arguments members are absent, well typed or ill typed.
RawCallParams ==
    {None, Some(JStr("search_bookmarks"))}
    \cup {Some(JObj(Member("name", Some(JNum(2))) @@ Member("arguments", Some(JObj(EmptyMap)))))}
    \cup {Some(JObj(Member("arguments", Some(JObj(a))))) : a \in RawArgumentsFor("")}
    \cup UNION {
           {Some(JObj(Member("name", Some(JStr(n))))),
            Some(JObj(Member("name", Some(JStr(n))) @@ Member("arguments", Some(JNull)))),
            Some(JObj(Member("name", Some(JStr(n))) @@ Member("arguments", Some(JStr("x")))))}
           \cup {Some(JObj(Member("name", Some(JStr(n))) @@ Member("arguments", Some(JObj(a))))) :
                   a \in RawArgumentsFor(n)}
           : n \in RawNames}
    \cup MiscasedCallParams

MCPRequest(id, method, params) ==
    [ID |-> id, Method |-> method, Params |-> params]

OtherMethods ==
    {"initialize", "notifications/initialized", "tools/list", "resources/list"}

\* The tool a raw request would reach, for choosing the remote's replies.
RawTarget(request) ==
    IF request.Method = "tools/call" /\ DecodeToolCallParams(request.Params).ok
    THEN DecodeToolCallParams(request.Params).Name
    ELSE ""

----------------------------------------------------------------------------
(* The state machine: an idle adapter takes one request; its handler runs  *)
(* up to its return, or up to httpClient.Do when it gets that far, waits   *)
(* there while the request is in flight, and runs to its return when Do is *)
(* back.  Once the response is out, the request-scoped values are dropped  *)
(* and the adapter is idle again.  Beside the request followed, another    *)
(* goroutine (another invocation under RunHTTP, another caller of the      *)
(* Client) may have a request of its own in flight.                        *)

NoRequest == [Method |-> ""]
NoResponse == Response(0, None, None, None) @@ [handler |-> ""]

\* No Client operation was called on its own, Server.Run is not running, and
\* no invocation executes under RunHTTP.
NoReturn == [op |-> ""]
LoopOff ==
    /\ pc = "off"
    /\ decoded = <<>>
    /\ stdout = <<>>
    /\ runErr = None
    /\ inflight = <<>>
    /\ elapsed = 0
NoTasks == <<>>

Init ==
    /\ client \in {NewClient(b, APIToken) : b \in BaseURLs}
    /\ impl = "none"
    /\ req = NoRequest
    /\ out = NoResponse
    /\ calls = <<>>
    /\ wire = <<>>
    /\ ret = NoReturn
    /\ LoopOff
    /\ tasks = NoTasks
    /\ keptAlive = FALSE

\* httpClient.Do has not returned yet: what a handler or an operation does
\* before it does not depend on the reply.
NotBack == Failure("connection refused")

\* The handler is entered and runs up to its return, or up to
\* httpClient.Do: then its request is in flight and the wait begins.
Enter(adapter, request, h) ==
    /\ impl' = adapter
    /\ req' = request
    /\ calls' = h.calls
    /\ IF h.sent = <<>>
       THEN /\ out' = h.response @@ [handler |-> h.handler]
            /\ UNCHANGED <<pc, inflight>>
       ELSE /\ inflight' = <<h.sent[1].request>>
            /\ pc' = "call"
            /\ UNCHANGED out
    /\ UNCHANGED <<client, wire, ret, decoded, stdout, runErr, elapsed,
                   tasks, keptAlive>>

\* A tools/call reaches a handler of the toolkit adapter.
SdkCallTool ==
    \E id \in IDs, name \in DOMAIN NewMCP_Tools :
      \E args \in SdkArgs(name) :
        /\ impl = "none"
        /\ Enter("sdk",
                 [ID |-> id, Method |-> "tools/call", Name |-> name, Args |-> args],
                 MCPServer_callTool(client, id, name, args, NotBack))

\* A tools/call reaches the raw adapter.
RawCallTool ==
    \E id \in IDs, params \in RawCallParams :
      LET request == MCPRequest(id, "tools/call", params)
      IN  /\ impl = "none"
          /\ Enter("raw", request,
                   Server_handleRequest(client, request, NotBack))

\* Any other request reaches the raw adapter.
RawOther ==
    \E id \in IDs, method \in OtherMethods :
      LET request == MCPRequest(id, method, None)
      IN  /\ impl = "none"
          /\ Enter("raw", request,
                   Server_handleRequest(client, request, NotBack))

\* The handler of the request in hand, given what httpClient.Do met.
Handler(remote) ==
    IF impl = "sdk"
    THEN MCPServer_callTool(client, req.ID, req.Name, req.Args, remote)
    ELSE Server_handleRequest(client, req, remote)

\* httpClient.Do is back (the remote answered, the transport failed or the
\* http.Client timer ended the wait) and the handler runs to its return.
Handler_Resume ==
    /\ impl # "none"
    /\ pc = "call"
    /\ \E remote \in RepliesFor(IF impl = "sdk" THEN req.Name
                                ELSE RawTarget(req)) :
          /\ Admissible(remote, keptAlive)
          /\ out' = Handler(remote).response
                        @@ [handler |-> Handler(remote).handler]
          /\ wire' = Handler(remote).sent
          /\ keptAlive' = (keptAlive \/ KeepsAlive(Handler(remote).sent))
    /\ inflight' = <<>>
    /\ pc' = "off"
    /\ UNCHANGED <<client, impl, req, calls, ret, decoded, stdout, runErr,
                   elapsed, tasks>>

\* The response has been written; nothing of the request is kept.
Finish ==
    /\ impl # "none"
    /\ pc = "off"
    /\ impl' = "none"
    /\ req' = NoRequest
    /\ out' = NoResponse
    /\ calls' = <<>>
    /\ wire' = <<>>
    /\ UNCHANGED <<client, ret, loop, tasks, keptAlive>>

\* The Client operations another goroutine calls meanwhile, and what its
\* httpClient.Do meets.
BesideOperations == {"GetTags", "DeleteBookmark"}
BesideOperation(op, remote) ==
    IF op = "GetTags" THEN GetTags(client, 0, 0, remote)
    ELSE DeleteBookmark(client, 7, remote)
BesideReplies ==
    {Failure("connection refused"), Answer(StatusNoContent, Undecodable),
     Stale("EOF", FALSE, Answer(StatusOK, Decodes(Page(<<>>, 0))))}

\* Another goroutine calls an operation of the same Client and waits in
\* httpClient.Do.
Beside_Call ==
    \E op \in BesideOperations :
        /\ pc \in {"off", "call"}
        /\ tasks = NoTasks
        /\ BesideOperation(op, NotBack).sent # <<>>
        /\ tasks' = <<[op |-> op,
                       request |-> BesideOperation(op, NotBack).sent[1].request]>>
        /\ UNCHANGED <<client, impl, req, out, calls, wire, ret, loop,
                       keptAlive>>

\* Its httpClient.Do is back and its operation returns to it.
Beside_Return ==
    \E remote \in BesideReplies :
        /\ pc \in {"off", "call"}
        /\ tasks # NoTasks
        /\ Admissible(remote, keptAlive)
        /\ tasks' = NoTasks
        /\ keptAlive' =
              (keptAlive \/ KeepsAlive(BesideOperation(tasks[1].op, remote).sent))
        /\ UNCHANGED <<client, impl, req, out, calls, wire, ret, loop>>

Next ==
    \/ SdkCallTool
    \/ RawCallTool
    \/ RawOther
    \/ Handler_Resume
    \/ Finish
    \/ Beside_Call
    \/ Beside_Return

Spec == Init /\ [][Next]_vars

----------------------------------------------------------------------------
(* The Client used on its own: a caller of package linkding invokes one    *)
(* operation, which builds its request and waits in httpClient.Do; the     *)
(* remote service does what it does, and the operation returns.  `calls`   *)
(* keeps its arguments, `wire` the HTTP exchanges and `ret` what it        *)
(* returned.                                                               *)

Statuses == {StatusOK, StatusCreated, StatusNoContent, 404, 500}

\* The remote's possible replies to an operation: those a tool call meets,
\* and every status with a body that decodes into `v` or does not decode.
ClientReplies(replies, v) ==
    replies
    \cup {Answer(st, Undecodable) : st \in Statuses}
    \cup {Answer(st, Decodes(v)) : st \in Statuses}

Limits == {-1, 0, 5}
Offsets == {-1, 0, 3}
Queries == {"", "golang", "go lang", "a&b"}
BookmarkIDs == {7, 8}
CreateBookmarkRequests ==
    {CreateBookmarkRequest("https://x.test", "", "", <<>>),
     CreateBookmarkRequest("https://x.test", "X", "about x", <<"go", "web">>)}

\* The operation a call names, on the arguments of the call.
Operation(c, call, remote) ==
    CASE call.op = "GetBookmarks" ->
             GetBookmarks(c, call.limit, call.offset, call.query, remote)
      [] call.op = "GetTags" -> GetTags(c, call.limit, call.offset, remote)
      [] call.op = "CreateBookmark" -> CreateBookmark(c, call.req, remote)
      [] call.op = "UpdateBookmark" ->
             UpdateBookmark(c, call.id, call.req, remote)
      [] call.op = "DeleteBookmark" -> DeleteBookmark(c, call.id, remote)
      [] call.op = "ArchiveBookmark" -> ArchiveBookmark(c, call.id, remote)
      [] call.op = "UnarchiveBookmark" -> UnarchiveBookmark(c, call.id, remote)

OperationReplies(op) ==
    CASE op = "GetBookmarks" -> ClientReplies(BookmarkListReplies, Page(<<>>, 0))
      [] op = "GetTags" -> ClientReplies(TagListReplies, Page(<<>>, 0))
      [] op = "CreateBookmark" -> ClientReplies(CreateReplies, BookmarkB)
      [] OTHER ->
             ClientReplies(FailedReplies, BookmarkB)
             \cup Detours(Answer(StatusNoContent, Undecodable))
             \cup Detours(Answer(StatusOK, Decodes(BookmarkB)))

\* The operation is called and runs up to its return, or up to
\* httpClient.Do: then its request is in flight and the wait begins.
Call(call) ==
    /\ calls' = <<call>>
    /\ IF Operation(client, call, NotBack).sent = <<>>
       THEN /\ ret' = [op |-> call.op,
                       val |-> Operation(client, call, NotBack).val,
                       err |-> Operation(client, call, NotBack).err]
            /\ UNCHANGED <<pc, inflight>>
       ELSE /\ inflight' = <<Operation(client, call, NotBack).sent[1].request>>
            /\ pc' = "call"
            /\ UNCHANGED ret
    /\ UNCHANGED <<client, impl, req, out, wire, decoded, stdout, runErr,
                   elapsed, tasks, keptAlive>>

\* No operation of the caller followed is under way.
CallerIdle == impl = "none" /\ ret.op = "" /\ pc = "off"

ClientGetBookmarks ==
    \E limit \in Limits, offset \in Offsets, query \in Queries :
        /\ CallerIdle
        /\ Call([op |-> "GetBookmarks", limit |-> limit, offset |-> offset,
                 query |-> query])

ClientGetTags ==
    \E limit \in Limits, offset \in Offsets :
        /\ CallerIdle
        /\ Call([op |-> "GetTags", limit |-> limit, offset |-> offset])

ClientCreateBookmark ==
    \E r \in CreateBookmarkRequests :
        /\ CallerIdle
        /\ Call([op |-> "CreateBookmark", req |-> r])

ClientUpdateBookmark ==
    \E id \in BookmarkIDs, r \in CreateBookmarkRequests :
        /\ CallerIdle
        /\ Call([op |-> "UpdateBookmark", id |-> id, req |-> r])

ClientDeleteBookmark ==
    \E id \in BookmarkIDs :
        /\ CallerIdle
        /\ Call([op |-> "DeleteBookmark", id |-> id])

ClientArchiveBookmark ==
    \E id \in BookmarkIDs :
        /\ CallerIdle
        /\ Call([op |-> "ArchiveBookmark", id |-> id])

ClientUnarchiveBookmark ==
    \E id \in BookmarkIDs :
        /\ CallerIdle
        /\ Call([op |-> "UnarchiveBookmark", id |-> id])

\* httpClient.Do is back and the operation runs to its return: the status
\* check, the decoding of the body, the result.
Operation_Resume ==
    /\ impl = "none"
    /\ pc = "call"
    /\ \E remote \in OperationReplies(calls[1].op) :
          /\ Admissible(remote, keptAlive)
          /\ ret' = [op |-> calls[1].op,
                     val |-> Operation(client, calls[1], remote).val,
                     err |-> Operation(client, calls[1], remote).err]
          /\ wire' = Operation(client, calls[1], remote).sent
          /\ keptAlive' =
                (keptAlive \/ KeepsAlive(Operation(client, calls[1], remote).sent))
    /\ inflight' = <<>>
    /\ pc' = "off"
    /\ UNCHANGED <<client, impl, req, out, calls, decoded, stdout, runErr,
                   elapsed, tasks>>

\* The caller is done with what the operation returned.
ClientForget ==
    /\ ret.op # ""
    /\ ret' = NoReturn
    /\ calls' = <<>>
    /\ wire' = <<>>
    /\ UNCHANGED <<client, impl, req, out, loop, tasks, keptAlive>>

ClientNext ==
    \/ ClientGetBookmarks
    \/ ClientGetTags
    \/ ClientCreateBookmark
    \/ ClientUpdateBookmark
    \/ ClientDeleteBookmark
    \/ ClientArchiveBookmark
    \/ ClientUnarchiveBookmark
    \/ Operation_Resume
    \/ ClientForget
    \/ Beside_Call
    \/ Beside_Return

ClientSpec == Init /\ [][ClientNext]_vars

----------------------------------------------------------------------------
(* Server.Run: the line-oriented loop of the hand-rolled adapter.  It      *)
(* decodes one request from the input, handles it, encodes the response to *)
(* the output, and starts over; it returns when decoding or encoding       *)
(* fails.  While the handler waits in httpClient.Do the request is in      *)
(* flight: the remote answers, or the transport fails, or the http.Client  *)
(* timer ends the wait.                                                    *)

\* What json.Decoder.Decode meets on the input when it cannot deliver a
\* request: the end of the stream, or bytes that are no MCPRequest.
StreamFailures == {"EOF", "invalid character"}

\* The params of the tools/call requests the loop is fed: not an object, an
\* unknown tool, get_tags, create_bookmark without url, and two calls that
\* reach the Client.
LoopCallParams ==
    {Some(JStr("search_bookmarks")),
     Some(JObj(Member("name", Some(JStr("delete_bookmark"))))),
     Some(JObj(Member("name", Some(JStr("get_tags")))
               @@ Member("arguments", Some(JObj(EmptyMap))))),
     Some(JObj(Member("Name", Some(JStr("search_bookmarks")))
               @@ Member("arguments",
                         Some(JObj(Member("query", Some(JStr("golang")))))))),
     Some(JObj(Member("name", Some(JStr("create_bookmark")))
               @@ Member("arguments",
                         Some(JObj(Member("url", Some(JStr("https://x.test"))))))))}

LoopRequests ==
    {MCPRequest(id, method, None) : id \in IDs, method \in OtherMethods}
    \cup {MCPRequest(id, "tools/call", params) :
             id \in IDs, params \in LoopCallParams}

\* What httpClient.Do can come back with before the timer ends the wait.
LoopReplies(name) ==
    CASE name = "search_bookmarks" ->
             {Failure("connection refused"), Answer(500, Undecodable),
              Answer(StatusOK, Decodes(Page(<<BookmarkB>>, 1))),
              Stale("EOF", TRUE,
                    Answer(StatusOK, Decodes(Page(<<BookmarkB>>, 1))))}
      [] name = "create_bookmark" ->
             {Failure("connection refused"),
              Answer(StatusCreated, Decodes(BookmarkA)),
              Redirect(302, Moved, Answer(StatusOK, Decodes(BookmarkA)))}
      [] OTHER -> {Failure("connection refused")}

LoopInit ==
    /\ client \in {NewClient(b, APIToken) : b \in BaseURLs}
    /\ impl = "none"
    /\ req = NoRequest
    /\ out = NoResponse
    /\ calls = <<>>
    /\ wire = <<>>
    /\ ret = NoReturn
    /\ pc = "decode"
    /\ decoded = <<>>
    /\ stdout = <<>>
    /\ runErr = None
    /\ inflight = <<>>
    /\ elapsed = 0
    /\ tasks = NoTasks
    /\ keptAlive = FALSE

\* decoder.Decode(&request) delivers the next request of the input, in a
\* session of at most `most` requests.
Run_DecodeWithin(most) ==
    \E request \in LoopRequests :
        /\ pc = "decode"
        /\ Len(decoded) < most
        /\ decoded' = Append(decoded, request)
        /\ impl' = "raw"
        /\ req' = request
        /\ pc' = "handle"
        /\ UNCHANGED <<client, out, calls, wire, ret, stdout, runErr,
                       inflight, elapsed, tasks, keptAlive>>

Run_Decode == Run_DecodeWithin(MaxRequests)

\* decoder.Decode fails: Run returns the wrapped error.
Run_DecodeFails ==
    \E cause \in StreamFailures :
        /\ pc = "decode"
        /\ pc' = "returned"
        /\ runErr' = Some(<<Lit("failed to decode request: "), Cause(cause)>>)
        /\ UNCHANGED <<client, impl, req, out, calls, wire, ret, decoded,
                       stdout, inflight, elapsed, tasks, keptAlive>>

\* Variant: tools requests are refused until initialize has been handled.
Run_handleRequest_Gated(c, session, request, remote) ==
    IF /\ request.Method \in {"tools/list", "tools/call"}
       /\ \A i \in 1..Len(session) : session[i].Method # "initialize"
    THEN Handled("", ErrorResponse(request.ID, CodeInvalidParams,
                                   "Server not initialized"), <<>>, <<>>)
    ELSE Server_handleRequest(c, request, remote)

\* response := s.handleRequest(ctx, request): the handler is given the
\* Server (its Client) and the request; of the session so far, the requests
\* handled before this one, it is given nothing.
Run_handleRequest(c, session, request, remote) ==
    Server_handleRequest(c, request, remote)

\* The requests handled before the one in hand.
Session == SubSeq(decoded, 1, Len(decoded) - 1)

\* The handler runs up to its return, or up to httpClient.Do when it gets
\* that far: then its request is in flight and the wait begins.  The
\* request does not depend on what will come back.
Run_Handle ==
    /\ pc = "handle"
    /\ \E h \in {Run_handleRequest(client, Session, req, NotBack)} :
          /\ calls' = h.calls
          /\ IF h.sent = <<>>
             THEN /\ out' = h.response @@ [handler |-> h.handler]
                  /\ pc' = "encode"
                  /\ UNCHANGED inflight
             ELSE /\ inflight' = Append(inflight, h.sent[1].request)
                  /\ pc' = "call"
                  /\ UNCHANGED out
    /\ UNCHANGED <<client, impl, req, wire, ret, decoded, stdout, runErr,
                   elapsed, tasks, keptAlive>>

\* httpClient.Do is back and the handler runs to its return.
Run_Resume(remote) ==
    \E h \in {Run_handleRequest(client, Session, req, remote)} :
        /\ out' = h.response @@ [handler |-> h.handler]
        /\ wire' = h.sent
        /\ keptAlive' = (keptAlive \/ KeepsAlive(h.sent))
        /\ inflight' = <<>>
        /\ elapsed' = 0
        /\ pc' = "encode"
        /\ UNCHANGED <<client, impl, req, calls, ret, decoded, stdout, runErr,
                       tasks>>

\* The remote answers, or the transport fails, while the handler waits.
Remote_Reply ==
    \E remote \in LoopReplies(RawTarget(req)) :
        /\ pc = "call"
        /\ Admissible(remote, keptAlive)
        /\ Run_Resume(remote)

\* A second passes while the handler waits.
Tick ==
    /\ pc = "call"
    /\ elapsed < ClientTimeoutSeconds
    /\ elapsed' = elapsed + 1
    /\ UNCHANGED <<client, impl, req, out, calls, wire, ret, pc, decoded,
                   stdout, runErr, inflight, tasks, keptAlive>>

\* http.Client's Timeout: a positive Timeout ends the wait once that much
\* time has passed; a Timeout of zero means no timeout.
HTTPClient_TimedOut(c, waited) == c.timeout > 0 /\ waited >= c.timeout

\* The timer ends the wait: httpClient.Do returns the timeout error.
HTTPClient_Timeout ==
    /\ pc = "call"
    /\ HTTPClient_TimedOut(client, elapsed)
    /\ Run_Resume(Failure("Client.Timeout exceeded"))

\* Variant: a response with neither result nor error is not written.
Run_Encoded_SkipEmpty(stream, response) ==
    IF response.Result = None /\ response.Error = None THEN stream
    ELSE Append(stream, response)

\* encoder.Encode(response): the output after the response is written.
Run_Encoded(stream, response) == Append(stream, response)

\* Variant: the loop is left after a response that carries an error.
Run_AfterEncode_StopOnError(response) ==
    IF response.Error # None THEN "returned" ELSE "decode"

\* for { ... }: after a response is written the loop starts over, whatever
\* the response was.
Run_AfterEncode(response) == "decode"

\* encoder.Encode(response) succeeds; the request-scoped values are gone
\* with the iteration.
Run_Encode ==
    LET response == Response(out.ID, out.Result, out.Error, out.Structured)
    IN  /\ pc = "encode"
        /\ stdout' = Run_Encoded(stdout, response)
        /\ pc' = Run_AfterEncode(response)
        /\ impl' = "none"
        /\ req' = NoRequest
        /\ out' = NoResponse
        /\ calls' = <<>>
        /\ wire' = <<>>
        /\ UNCHANGED <<client, ret, decoded, runErr, inflight, elapsed, tasks,
                       keptAlive>>

\* encoder.Encode fails (the output cannot be written): Run returns the
\* wrapped error.
Run_EncodeFails ==
    /\ pc = "encode"
    /\ pc' = "returned"
    /\ runErr' = Some(<<Lit("failed to encode response: "), Cause("write")>>)
    /\ UNCHANGED <<client, impl, req, out, calls, wire, ret, decoded, stdout,
                   inflight, elapsed, tasks, keptAlive>>

LoopNext ==
    \/ Run_Decode
    \/ Run_DecodeFails
    \/ Run_Handle
    \/ Remote_Reply
    \/ Tick
    \/ HTTPClient_Timeout
    \/ Run_Encode
    \/ Run_EncodeFails

LoopSpec == LoopInit /\ [][LoopNext]_vars

\* The loop in sessions of at most MaxLiveRequests requests, under the
\* scheduling the runtime provides: time passes while a request is in
\* flight, the http.Client timer fires when it is due, and a handler that
\* can run does run.  Nothing is assumed of the remote service, of the peer
\* writing the input, or of the output.
LiveNext ==
    \/ Run_DecodeWithin(MaxLiveRequests)
    \/ Run_DecodeFails
    \/ Run_Handle
    \/ Remote_Reply
    \/ Tick
    \/ HTTPClient_Timeout
    \/ Run_Encode
    \/ Run_EncodeFails

LoopLive ==
    /\ LoopInit
    /\ [][LiveNext]_vars
    /\ WF_vars(Tick)
    /\ WF_vars(HTTPClient_Timeout)
    /\ WF_vars(Run_Handle)

----------------------------------------------------------------------------
(* MCPServer.RunHTTP: the toolkit's HTTP handler serves every HTTP request *)
(* on a goroutine of its own, so the typed handlers of one MCPServer, and  *)
(* the operations of its one Client, execute concurrently.  An invocation  *)
(* enters its handler, runs up to httpClient.Do, waits, and runs to its    *)
(* return; the steps of different invocations interleave freely.           *)

Invocations == 1..MaxTasks

\* The calls the concurrent invocations are drawn from.
HTTPCalls ==
    {[name |-> "search_bookmarks", args |-> [Query |-> "golang", Limit |-> 0]],
     [name |-> "search_bookmarks", args |-> [Query |-> "", Limit |-> 5]],
     [name |-> "create_bookmark",
      args |-> [URL |-> "", Title |-> "X", Description |-> "", Tags |-> <<>>]],
     [name |-> "create_bookmark",
      args |-> [URL |-> "https://x.test", Title |-> "X", Description |-> "",
                Tags |-> <<"go", "web">>]],
     [name |-> "get_tags", args |-> [Limit |-> 0]]}

HTTPReplies(name) ==
    CASE name = "search_bookmarks" ->
             {Failure("connection refused"), Answer(500, Undecodable),
              Answer(StatusOK, Decodes(Page(<<BookmarkB>>, 1)))}
      [] name = "create_bookmark" ->
             {Failure("Client.Timeout exceeded"),
              Answer(StatusCreated, Decodes(BookmarkA))}
      [] name = "get_tags" ->
             {Failure("connection refused"),
              Answer(StatusOK, Decodes(Page(<<Tag(1, "go")>>, 1))),
              Redirect(308, Elsewhere,
                       Answer(StatusOK, Decodes(Page(<<Tag(1, "go")>>, 1)))),
              Stale("broken pipe", FALSE, Failure("connection refused"))}

IdleTask == [pc |-> "idle"]

HTTPInit ==
    /\ client \in {NewClient(b, APIToken) : b \in BaseURLs}
    /\ impl = "none"
    /\ req = NoRequest
    /\ out = NoResponse
    /\ calls = <<>>
    /\ wire = <<>>
    /\ ret = NoReturn
    /\ LoopOff
    /\ tasks = [t \in Invocations |-> IdleTask]
    /\ keptAlive = FALSE

\* Variant: the handlers keep the arguments in hand in one place shared by
\* all invocations, which the invocation that entered beside this one has
\* overwritten.
MCPServer_frame_Shared(all, t) ==
    IF \E u \in DOMAIN all : u # t /\ all[u].pc \in {"entered", "waiting"}
    THEN all[CHOOSE u \in DOMAIN all : u # t /\ all[u].pc \in {"entered", "waiting"}]
    ELSE all[t]

\* The request, the arguments and the locals of invocation t: parameters
\* passed by value and variables of its own goroutine (req, args, limit,
\* createReq, bookmarks, result).
MCPServer_frame(all, t) == all[t]

\* The toolkit calls the handler registered for the tool.
HTTP_Enter(t) ==
    \E id \in IDs, call \in HTTPCalls :
        /\ tasks[t].pc = "idle"
        /\ tasks' = [tasks EXCEPT ![t] =
                        [pc |-> "entered", id |-> id, name |-> call.name,
                         args |-> call.args]]
        /\ UNCHANGED <<client, impl, req, out, calls, wire, ret, loop,
                       keptAlive>>

\* The handler runs up to its return, or up to httpClient.Do when it gets
\* that far.
HTTP_Handle(t) ==
    /\ tasks[t].pc = "entered"
    /\ LET f == MCPServer_frame(tasks, t)
           h == MCPServer_callTool(client, f.id, f.name, f.args,
                                   Failure("connection refused"))
       IN  tasks' = [tasks EXCEPT ![t] =
                       IF h.sent = <<>>
                       THEN [pc |-> "done", response |-> h.response,
                             calls |-> h.calls, wire |-> <<>>] @@ tasks[t]
                       ELSE [pc |-> "waiting", calls |-> h.calls,
                             request |-> h.sent[1].request] @@ tasks[t]]
    /\ UNCHANGED <<client, impl, req, out, calls, wire, ret, loop, keptAlive>>

\* httpClient.Do is back for invocation t and its handler runs to its
\* return.
HTTP_Resume(t) ==
    /\ tasks[t].pc = "waiting"
    /\ \E remote \in HTTPReplies(tasks[t].name) :
          LET f == MCPServer_frame(tasks, t)
              h == MCPServer_callTool(client, f.id, f.name, f.args, remote)
          IN  /\ Admissible(remote, keptAlive)
              /\ tasks' = [tasks EXCEPT ![t] =
                             [pc |-> "done", response |-> h.response,
                              calls |-> h.calls, wire |-> h.sent,
                              id |-> tasks[t].id, name |-> tasks[t].name,
                              args |-> tasks[t].args]]
              /\ keptAlive' = (keptAlive \/ KeepsAlive(h.sent))
    /\ UNCHANGED <<client, impl, req, out, calls, wire, ret, loop>>

\* The toolkit has written the response; the invocation is over.
HTTP_Leave(t) ==
    /\ tasks[t].pc = "done"
    /\ tasks' = [tasks EXCEPT ![t] = IdleTask]
    /\ UNCHANGED <<client, impl, req, out, calls, wire, ret, loop, keptAlive>>

HTTPNext ==
    \E t \in Invocations :
        \/ HTTP_Enter(t)
        \/ HTTP_Handle(t)
        \/ HTTP_Resume(t)
        \/ HTTP_Leave(t)

HTTPSpec == HTTPInit /\ [][HTTPNext]_vars

----------------------------------------------------------------------------
(* Views of a served request, used to state the properties.  They read the *)
(* request as it arrived and the HTTP exchange as it happened, not the     *)
(* adapters' own intermediate values.                                      *)

\* The request in hand has been answered: its handler is not waiting in
\* httpClient.Do.
Served == impl # "none" /\ pc = "off"
ToolCall == Served /\ req.Method = "tools/call"

\* The members of the raw params object (none when it is not an object).
RawMembers ==
    IF req.Params # None /\ req.Params[1].t = "obj"
    THEN req.Params[1].members ELSE EmptyMap

\* What the params give for a member of the envelope, the key spelt in any
\* letter case, as encoding/json takes it.
RawGiven(field) == FieldValues(RawMembers, field)

\* The raw params are a {name, arguments} envelope: missing or an object,
\* name missing or a string, arguments missing, null or an object.
RawEnvelope ==
    /\ req.Params # None => req.Params[1].t \in {"null", "obj"}
    /\ \A i \in DOMAIN RawGiven("name") :
           RawGiven("name")[i].t \in {"null", "str"}
    /\ \A i \in DOMAIN RawGiven("arguments") :
           RawGiven("arguments")[i].t \in {"null", "obj"}

\* The last string of a sequence of JSON values, None when it has none.
LastString(values) ==
    LET at == {i \in DOMAIN values : values[i].t = "str"}
    IN  IF at = {} THEN None
        ELSE Some(values[CHOOSE i \in at : \A j \in at : j <= i].s)

\* The tool name the request carries, None when it carries no string name.
ToolName ==
    IF impl = "sdk" THEN Some(req.Name)
    ELSE LastString(RawGiven("name"))

\* The raw argument mapping (empty when missing, null or not an object).
RawArguments == MergedArguments(RawGiven("arguments"))

\* A tools/call in the shape the protocol prescribes.
WellFormedCall ==
    /\ ToolCall
    /\ impl = "raw" => RawEnvelope /\ ToolName # None

ProtocolError(code) == out.Error # None /\ out.Error[1].Code = code
AnyProtocolError == out.Error # None

\* A tool result: a result and no protocol error.
HasToolResult == ToolCall /\ out.Result # None /\ out.Error = None
ResultText == out.Result[1].Content[1].Text
BusinessError == HasToolResult /\ out.Result[1].IsError

\* No Client operation ran and nothing went to the remote service.
ClientUntouched == calls = <<>> /\ wire = <<>>

\* What httpClient.Do came back with: the reply to the last request it
\* sent.
Reply == wire[Len(wire)].reply
\* The exchanges of the request the Client built: the first, and those that
\* repeat it on a fresh connection.  The others follow a redirect to where
\* the remote's Location points.
BuiltRequests == {k \in DOMAIN wire : wire[k].request = wire[1].request}
\* The REST contract: a GET succeeds with 200, the creating POST with 201.
SuccessStatusOf(method) ==
    IF method = "POST" THEN StatusCreated ELSE StatusOK
ExchangeSucceeded ==
    /\ Len(calls) = 1 /\ wire # <<>>
    /\ Reply.kind = "http"
    /\ Reply.status = SuccessStatusOf(wire[1].request.method)
    /\ Reply.body.decodes
ClientFailed == calls # <<>> /\ ~ExchangeSucceeded

----------------------------------------------------------------------------
(* Properties.                                                             *)

\* C1 (as stated): every tools/call whose tool name is not in the catalog
\* is answered with the protocol error -32601, carries no tool result and
\* performs no Client operation.
C1_UnknownToolAlwaysNotFound ==
    (ToolCall /\ ToolName # None /\ ToolName[1] \notin ToolNames) =>
        /\ ProtocolError(CodeMethodNotFound)
        /\ out.Result = None
        /\ ClientUntouched

\* C1 (amended): a tools/call whose params decode as a {name, arguments}
\* envelope and whose tool name is missing or not in the catalog is
\* answered with -32601, no result and no Client operation; one whose
\* params do not decode is answered with -32602, likewise with no result and
\* no Client operation.
C1_UnknownToolNotFound ==
    (ToolCall /\ impl = "raw" /\ (ToolName = None \/ ToolName[1] \notin ToolNames)) =>
        /\ ProtocolError(IF RawEnvelope THEN CodeMethodNotFound ELSE CodeInvalidParams)
        /\ out.Result = None
        /\ out.handler = ""
        /\ ClientUntouched

\* C1 witness: an unknown tool with an object of arguments was refused.
C1_Witness ==
    /\ ToolCall /\ impl = "raw" /\ RawEnvelope
    /\ ToolName = Some("delete_bookmark")
    /\ "limit" \in DOMAIN RawArguments
    /\ ProtocolError(CodeMethodNotFound)

\* The handler and the Client operation each catalog tool belongs to.
HandlerOf(name) ==
    CASE name = "search_bookmarks" -> "handleSearchBookmarks"
      [] name = "create_bookmark" -> "handleCreateBookmark"
      [] name = "get_tags" -> "handleGetTags"
OperationOf(name) ==
    CASE name = "search_bookmarks" -> "GetBookmarks"
      [] name = "create_bookmark" -> "CreateBookmark"
      [] name = "get_tags" -> "GetTags"

\* C2: a well-formed tools/call naming one of the three catalog tools runs
\* that tool's own handler, reaches no other Client operation than that
\* tool's, and is never answered with -32601.
C2_CatalogToolsRouted ==
    (WellFormedCall /\ ToolName[1] \in ToolNames) =>
        /\ out.handler = HandlerOf(ToolName[1])
        /\ \A i \in 1..Len(calls) : calls[i].op = OperationOf(ToolName[1])
        /\ ~ProtocolError(CodeMethodNotFound)

\* The url argument is absent or the empty string.
UrlAbsentOrEmpty ==
    IF impl = "sdk" THEN req.Args.URL = ""
    ELSE \/ "url" \notin DOMAIN RawArguments
         \/ RawArguments["url"] = JStr("")

\* C3: a create_bookmark call whose url is absent or empty ends as a
\* business error with the text "URL is required", without a protocol error
\* and without any Client operation or HTTP request.
C3_EmptyUrlRejected ==
    (WellFormedCall /\ ToolName = Some("create_bookmark") /\ UrlAbsentOrEmpty) =>
        /\ BusinessError
        /\ Len(out.Result[1].Content) = 1
        /\ ResultText = <<Lit("URL is required")>>
        /\ ClientUntouched

\* C3 witness: the toolkit adapter refused a create_bookmark without url
\* that carried other arguments.
C3_Witness ==
    /\ ToolCall /\ impl = "sdk" /\ req.Name = "create_bookmark"
    /\ req.Args.URL = "" /\ req.Args.Title = "X"
    /\ BusinessError /\ ClientUntouched

\* The limit argument as supplied: None when omitted, else its value.  The
\* toolkit's typed arguments cannot tell an omitted limit from a zero.
SuppliedLimit ==
    IF impl = "sdk"
    THEN (IF req.Args.Limit = 0 THEN None ELSE Some(req.Args.Limit))
    ELSE IF "limit" \in DOMAIN RawArguments
            /\ RawArguments["limit"].t = "num"
            /\ RawArguments["limit"].halves % 2 = 0
    THEN Some(RawArguments["limit"].halves \div 2)
    ELSE None

\* The limit argument is omitted or an integer.
LimitOmittedOrInteger ==
    impl = "raw" /\ "limit" \in DOMAIN RawArguments =>
        /\ RawArguments["limit"].t = "num"
        /\ RawArguments["limit"].halves % 2 = 0

DefaultLimitOf(name) ==
    IF name = "search_bookmarks" THEN DefaultSearchLimit ELSE DefaultTagsLimit

\* C4: for search_bookmarks and get_tags the Client receives the tool's
\* default limit (20, 50) when the limit argument is omitted or is 0, and
\* any other supplied limit unchanged.
C4_LimitDefaulted ==
    (WellFormedCall /\ ToolName[1] \in {"search_bookmarks", "get_tags"}
       /\ LimitOmittedOrInteger /\ calls # <<>>) =>
        calls[1].limit =
            IF SuppliedLimit = None \/ SuppliedLimit = Some(0)
            THEN DefaultLimitOf(ToolName[1])
            ELSE SuppliedLimit[1]

\* The error the Client returns for the exchanges that happened.
ClientErrorText ==
    IF wire = <<>> THEN <<Lit("failed to create request: "), Cause("parse")>>
    ELSE IF Reply.kind \in {"transport", "stale"} THEN <<Cause(Reply.cause)>>
    ELSE IF Reply.kind = "redirect"
    THEN <<Cause("stopped after 10 redirects")>>
    ELSE IF Reply.status # SuccessStatusOf(wire[1].request.method)
    THEN <<Lit("API request failed with status "), Dec(Reply.status)>>
    ELSE <<Lit("failed to decode response: "), Cause("json")>>

FailurePrefixOf(op) ==
    CASE op = "GetBookmarks" -> "Failed to search bookmarks: "
      [] op = "CreateBookmark" -> "Failed to create bookmark: "
      [] op = "GetTags" -> "Failed to get tags: "

\* C5: when the Client operation a handler called returns an error, the
\* response is a tool result with isError set and a single text block
\* "Failed to <operation>: <error detail>"; it is never a protocol error
\* and holds nothing of a rendered result.
C5_ClientErrorIsBusinessError ==
    (ToolCall /\ ClientFailed) =>
        /\ BusinessError
        /\ ~AnyProtocolError
        /\ Len(out.Result[1].Content) = 1
        /\ out.Result[1].Content[1].Type = "text"
        /\ ResultText = <<Lit(FailurePrefixOf(calls[1].op))>> \o ClientErrorText

\* C5 witness: a search the remote answered with status 500.
C5_Witness ==
    /\ ToolCall /\ ClientFailed
    /\ calls[1].op = "GetBookmarks"
    /\ wire # <<>> /\ Reply.kind = "http" /\ Reply.status = 500
    /\ BusinessError
    /\ ResultText[1] = Lit("Failed to search bookmarks: ")

\* Some argument the tool declares has a JSON type other than its own.
RawArgumentMistyped ==
    \/ \E k \in {"query", "url", "title", "description"} \cap DOMAIN RawArguments :
          RawArguments[k].t # "str"
    \/ "limit" \in DOMAIN RawArguments /\ RawArguments["limit"].t # "num"
    \/ /\ "tags" \in DOMAIN RawArguments
       /\ \/ RawArguments["tags"].t # "arr"
          \/ \E i \in 1..Len(RawArguments["tags"].items) :
                RawArguments["tags"].items[i].t # "str"

\* C6: a tools/call to a known tool with an argument that cannot be decoded
\* into the tool's typed shape is answered with the protocol error -32602,
\* and neither the handler nor the Client runs.
C6_MistypedArgumentInvalidParams ==
    (WellFormedCall /\ impl = "raw"
       /\ ToolName[1] \in {"search_bookmarks", "create_bookmark"}
       /\ RawArgumentMistyped) =>
        /\ ProtocolError(CodeInvalidParams)
        /\ out.handler = ""
        /\ ClientUntouched

\* The call was refused before any Client operation: a protocol error, or
\* the missing URL.
Rejected ==
    \/ AnyProtocolError
    \/ HasToolResult /\ ResultText = <<Lit("URL is required")>>

\* C7 (as stated): every tool call that passes validation causes exactly one
\* HTTP request, and every refused one causes none.
C7_ExactlyOneRequest ==
    ToolCall => Len(wire) = IF Rejected THEN 0 ELSE 1

\* Request k of the exchanges was sent because of the reply before it: to
\* follow a redirect, or to replace a kept-alive connection that broke
\* before any response, nothing of the request written to it or its method
\* one net/http repeats.
FollowsFrom(k) ==
    LET before == wire[k - 1]
    IN  \/ before.reply.kind = "redirect"
        \/ /\ before.reply.kind = "stale"
           /\ wire[k].request = before.request
           /\ \/ ~before.reply.written
              \/ before.request.method \in {"GET", "HEAD", "OPTIONS", "TRACE"}
RedirectsFollowed ==
    Cardinality({k \in 2..Len(wire) : wire[k - 1].reply.kind = "redirect"})

\* C7 (amended): every tool call that passes validation invokes exactly one
\* Client operation, which builds one HTTP request and hands it to the HTTP
\* client once when the request can be built from the configured base URL,
\* and sends nothing when it cannot.  A further request goes out only to
\* follow a redirect the remote answered with (ten requests at most) or to
\* replace a reused connection that broke before any response; none goes
\* out after a transport failure or after any other response.  A refused
\* call invokes no Client operation and sends nothing.
C7_OneRequestHandedOver ==
    ToolCall =>
        /\ Len(calls) = (IF Rejected THEN 0 ELSE 1)
        /\ (wire = <<>>) <=> (Rejected \/ ~URLParses(client.baseURL))
        /\ \A k \in 2..Len(wire) : FollowsFrom(k)
        /\ RedirectsFollowed <= 9
        /\ \A k \in 1..Len(wire) :
              wire[k].reply.kind \in {"transport", "http"} => k = Len(wire)

\* C7 witness: the request was sent, the remote redirected it, the request
\* that followed the redirect met a transport failure, and the failure was
\* reported without a third request.
C7_Witness ==
    /\ ToolCall /\ ~Rejected
    /\ Len(wire) = 2
    /\ wire[1].reply.kind = "redirect" /\ Reply.kind = "transport"
    /\ BusinessError

\* The pieces of `text` grouped into blocks, a new block at every piece
\* equal to `first`.
RECURSIVE BlocksOf(_, _)
BlocksOf(text, first) ==
    IF text = <<>> THEN <<>>
    ELSE LET last == text[Len(text)]
             before == BlocksOf(SubSeq(text, 1, Len(text) - 1), first)
         IN  IF last = first \/ before = <<>>
             THEN Append(before, <<last>>)
             ELSE [before EXCEPT ![Len(before)] = Append(@, last)]

HasPiece(block, piece) == \E i \in 1..Len(block) : block[i] = piece

\* The list operation succeeded: these are the items the Client returned.
ListSucceeded(path) ==
    /\ ToolCall /\ ExchangeSucceeded
    /\ wire[1].request.method = "GET" /\ wire[1].request.path = path
Items == Reply.body.val.Results

\* The text after the count header, as item blocks.
ItemBlocks(first) == BlocksOf(SubSeq(ResultText, 4, Len(ResultText)), first)

\* C8: a successful search (any number of results) and a successful
\* get_tags with at least one result render the header "Found <N> ..." with
\* N the length of the Client's result sequence, followed by exactly N item
\* blocks, the i-th showing the i-th item.
C8_ListRendering ==
    /\ ListSucceeded("/api/bookmarks/") =>
          /\ HasToolResult /\ ~out.Result[1].IsError
          /\ Len(ResultText) >= 3
          /\ SubSeq(ResultText, 1, 3) =
                 <<Lit("Found "), Dec(Len(Items)), Lit(" bookmarks:\n\n")>>
          /\ LET blocks == ItemBlocks(Lit("(U+2022) **"))
             IN  /\ Len(blocks) = Len(Items)
                 /\ \A i \in 1..Len(Items) :
                       /\ Len(blocks[i]) >= 5
                       /\ SubSeq(blocks[i], 1, 5) =
                              <<Lit("(U+2022) **"), Str(Items[i].Title),
                                Lit("**\n  URL: "), Str(Items[i].URL), Lit("\n")>>
    /\ (ListSucceeded("/api/tags/") /\ Len(Items) >= 1) =>
          /\ HasToolResult /\ ~out.Result[1].IsError
          /\ Len(ResultText) >= 3
          /\ SubSeq(ResultText, 1, 3) =
                 <<Lit("Found "), Dec(Len(Items)), Lit(" tags:\n\n")>>
          /\ LET blocks == ItemBlocks(Lit("(U+2022) "))
             IN  /\ Len(blocks) = Len(Items)
                 /\ \A i \in 1..Len(Items) :
                       blocks[i] = <<Lit("(U+2022) "), Str(Items[i].Name),
                                     Lit(" (ID: "), Dec(Items[i].ID), Lit(")\n")>>

\* C8 witness: a search returned two different bookmarks out of a larger
\* total, and a text was rendered.
C8_Witness ==
    /\ ListSucceeded("/api/bookmarks/")
    /\ Len(Items) = 2 /\ Items[1] # Items[2]
    /\ Reply.body.val.Count > Len(Items)
    /\ HasToolResult /\ ~out.Result[1].IsError

\* C9: in the search rendering a bookmark's block has a "  Description: "
\* line exactly when its description is non-empty and a "  Tags: " line
\* exactly when its tag list is non-empty; with neither, the block is the
\* title line, the URL line and one blank line; every block ends with a
\* blank line.
C9_FieldSuppression ==
    ListSucceeded("/api/bookmarks/") =>
        LET blocks == ItemBlocks(Lit("(U+2022) **"))
        IN  /\ Len(blocks) = Len(Items)
            /\ \A i \in 1..Len(Items) :
                  LET b == blocks[i]
                  IN  /\ HasPiece(b, Lit("  Description: ")) <=> Items[i].Description # ""
                      /\ HasPiece(b, Lit("  Tags: ")) <=> Len(Items[i].TagNames) > 0
                      /\ Items[i].Description # "" =>
                            HasPiece(b, Str(Items[i].Description))
                      /\ Len(Items[i].TagNames) > 0 =>
                            HasPiece(b, List(Items[i].TagNames))
                      /\ (Items[i].Description = "" /\ Items[i].TagNames = <<>>) =>
                            b = <<Lit("(U+2022) **"), Str(Items[i].Title),
                                  Lit("**\n  URL: "), Str(Items[i].URL),
                                  Lit("\n"), Lit("\n")>>
                      /\ Len(b) >= 2
                      /\ b[Len(b)] = Lit("\n") /\ b[Len(b) - 1] = Lit("\n")

\* C9 witness: a rendered page holds a bookmark with neither description
\* nor tags and one with both.
C9_Witness ==
    /\ ListSucceeded("/api/bookmarks/") /\ HasToolResult
    /\ \E i \in 1..Len(Items) :
          Items[i].Description = "" /\ Items[i].TagNames = <<>>
    /\ \E i \in 1..Len(Items) :
          Items[i].Description # "" /\ Items[i].TagNames # <<>>

\* C10: a successful get_tags with zero tags has the text "No tags found"
\* and no error flag; a successful search with zero results has the
\* zero-count header "Found 0 bookmarks:\n\n".
C10_EmptyLists ==
    /\ (ListSucceeded("/api/tags/") /\ Len(Items) = 0) =>
          /\ HasToolResult /\ ~out.Result[1].IsError
          /\ ResultText = <<Lit("No tags found")>>
    /\ (ListSucceeded("/api/bookmarks/") /\ Len(Items) = 0) =>
          /\ HasToolResult /\ ~out.Result[1].IsError
          /\ ResultText = <<Lit("Found "), Dec(0), Lit(" bookmarks:\n\n")>>

\* C10 witness: get_tags succeeded with an empty page.
C10_Witness ==
    /\ ListSucceeded("/api/tags/") /\ Len(Items) = 0
    /\ HasToolResult

\* C11: when create_bookmark succeeds, the structured record returned next
\* to the tool result holds the identifier, URL, title, description and tags
\* of the Bookmark the Client returned (not the caller's arguments), success
\* true and the message "Bookmark created successfully", and the text opens
\* with the literal that begins "(U+2705) Bookmark created successfully!";
\* in every business-error outcome (empty URL, Client error) the structured
\* record's success flag is false.  The structured record is the second
\* return value of MCPServer.handleCreateBookmark; the hand-rolled Server
\* returns text only.
C11_StructuredRecord ==
    (ToolCall /\ impl = "sdk" /\ req.Name = "create_bookmark") =>
        /\ HasToolResult
        /\ out.Structured # None
        /\ ExchangeSucceeded =>
              LET bookmark == Reply.body.val
              IN  /\ ~out.Result[1].IsError
                  /\ out.Structured[1].ID = bookmark.ID
                  /\ out.Structured[1].URL = bookmark.URL
                  /\ out.Structured[1].Title = bookmark.Title
                  /\ out.Structured[1].Description = bookmark.Description
                  /\ out.Structured[1].Tags = bookmark.TagNames
                  /\ out.Structured[1].Success = TRUE
                  /\ out.Structured[1].Message = "Bookmark created successfully"
                  /\ ResultText[1] =
                         Lit("(U+2705) Bookmark created successfully!\n\n(U+2022) **")
        /\ BusinessError <=> ~ExchangeSucceeded
        /\ BusinessError => out.Structured[1].Success = FALSE

\* C11 witness: a create_bookmark succeeded and the remote's Bookmark
\* differs from the arguments in URL, title, description and tags.
C11_Witness ==
    /\ ToolCall /\ impl = "sdk" /\ req.Name = "create_bookmark"
    /\ ExchangeSucceeded
    /\ Reply.body.val.URL # req.Args.URL
    /\ Reply.body.val.Title # req.Args.Title
    /\ Reply.body.val.Description # req.Args.Description
    /\ Reply.body.val.TagNames # req.Args.Tags
    /\ out.Structured # None /\ out.Structured[1].Success

----------------------------------------------------------------------------
(* Properties of the Client used on its own.                               *)

\* The status an operation takes for success, per the REST contract.
SuccessStatus(op) ==
    CASE op \in {"GetBookmarks", "GetTags", "UpdateBookmark"} -> StatusOK
      [] op = "CreateBookmark" -> StatusCreated
      [] op \in {"DeleteBookmark", "ArchiveBookmark", "UnarchiveBookmark"} ->
             StatusNoContent

\* Operations that return a value next to the error; the others return
\* only an error, and their result is the nil error.
ReturnsValue(op) ==
    op \in {"GetBookmarks", "GetTags", "CreateBookmark", "UpdateBookmark"}

\* The remote answered the operation's request with an HTTP status.
Answered == ret.op # "" /\ wire # <<>> /\ Reply.kind = "http"

\* The operation returned its result: a value, or the nil error.
ReturnedResult ==
    IF ReturnsValue(ret.op) THEN ret.val # None /\ ret.err = None
    ELSE ret.err = None

\* C12: a Client operation returns its result only when the response
\* status is its one success status (200 for GetBookmarks, GetTags and
\* UpdateBookmark, 201 for CreateBookmark, 204 for DeleteBookmark,
\* ArchiveBookmark and UnarchiveBookmark); on any other status, another 2xx
\* included, it returns the error "API request failed with status <code>"
\* and no value; and it never returns both a value and an error, nor, when
\* it is a value-returning operation, neither.
C12_SingleSuccessStatus ==
    ret.op # "" =>
        /\ ReturnedResult => Answered /\ Reply.status = SuccessStatus(ret.op)
        /\ (Answered /\ Reply.status # SuccessStatus(ret.op)) =>
              /\ ret.err = Some(StatusError(Reply.status))
              /\ ret.val = None
        /\ (Answered /\ Reply.status = SuccessStatus(ret.op)
               /\ (ReturnsValue(ret.op) => Reply.body.decodes)) =>
              /\ ReturnedResult
              /\ ReturnsValue(ret.op) => ret.val = Some(Reply.body.val)
        /\ ReturnsValue(ret.op) => (ret.val = None) # (ret.err = None)
        /\ ~ReturnsValue(ret.op) => ret.val = None

\* C12 witness: CreateBookmark was answered 200 with a body that decodes
\* into a Bookmark, and returned the status error.
C12_Witness ==
    /\ ret.op = "CreateBookmark" /\ Answered
    /\ Reply.status = StatusOK /\ Reply.body.decodes
    /\ ret.err = Some(StatusError(StatusOK)) /\ ret.val = None

\* The query string of the request sent: its keys, and the value of one.
SentQuery == wire[1].request.query
QueryKeys == {SentQuery[i].key : i \in 1..Len(SentQuery)}
QueryValue(k) == SentQuery[CHOOSE i \in 1..Len(SentQuery) : SentQuery[i].key = k].val

\* The remote's decoding of a query value.
QueryUnescape(s) ==
    CASE s = "go+lang" -> "go lang"
      [] s = "a%26b" -> "a&b"
      [] OTHER -> s

\* C13: the request of GetBookmarks(limit, offset, query) has a limit
\* parameter exactly when limit > 0, an offset parameter exactly when
\* offset > 0 and a q parameter exactly when query is not empty, each once
\* and with the supplied value (q in its URL-escaped form), and has no query
\* string when none applies; GetTags(limit, offset) likewise for limit and
\* offset, and never a q.
C13_QueryParameters ==
    (ret.op \in {"GetBookmarks", "GetTags"} /\ wire # <<>>) =>
        LET a == calls[1]
            query == IF ret.op = "GetBookmarks" THEN a.query ELSE ""
        IN  /\ wire[1].request.method = "GET"
            /\ wire[1].request.path =
                  (IF ret.op = "GetBookmarks" THEN "/api/bookmarks/"
                   ELSE "/api/tags/")
            /\ Cardinality(QueryKeys) = Len(SentQuery)
            /\ QueryKeys \subseteq {"limit", "offset", "q"}
            /\ "limit" \in QueryKeys <=> a.limit > 0
            /\ "offset" \in QueryKeys <=> a.offset > 0
            /\ "q" \in QueryKeys <=> query # ""
            /\ a.limit > 0 => QueryValue("limit") = Dec(a.limit)
            /\ a.offset > 0 => QueryValue("offset") = Dec(a.offset)
            /\ query # "" =>
                  /\ QueryValue("q") = Str(QueryEscape(query))
                  /\ QueryUnescape(QueryValue("q").str) = query
            /\ (a.limit <= 0 /\ a.offset <= 0 /\ query = "") => SentQuery = <<>>

\* C13 witness: a GetBookmarks with a limit, no offset and a query that
\* needs escaping was sent.
C13_Witness ==
    /\ ret.op = "GetBookmarks" /\ wire # <<>>
    /\ calls[1].limit = 5 /\ calls[1].offset = 0 /\ calls[1].query = "a&b"
    /\ QueryKeys = {"limit", "q"}

\* The headers releases of net/http differ on for this request.
OpenHeaders(r) == IF "maybe" \in DOMAIN r THEN r.maybe ELSE {}
SuppliesBody(op) == op \in {"CreateBookmark", "UpdateBookmark"}
TokenHeader == <<"Token ", client.apiToken>>

\* C14 (as stated): every request that goes out in a Client operation has
\* the header Authorization "Token <apiToken of the Client>", and has the
\* Content-Type header exactly when the operation supplies a body
\* (CreateBookmark, UpdateBookmark).
C14_HeadersOnEveryRequest ==
    ret.op # "" =>
        \A k \in DOMAIN wire :
            LET r == wire[k].request
            IN  /\ "Authorization" \notin OpenHeaders(r) =>
                      /\ "Authorization" \in DOMAIN r.header
                      /\ r.header["Authorization"] = TokenHeader
                /\ "Content-Type" \notin OpenHeaders(r) =>
                      ("Content-Type" \in DOMAIN r.header <=> SuppliesBody(ret.op))

\* The hostname request k went to, and whether it is the hostname of the
\* first request or a subdomain of it.
HostAt(k) == ParsedURL(wire[k].request.base).host
WithinFirst(k) == IsDomainOrSubdomain(HostAt(k), HostAt(1))

\* C14 (amended): every request a Client operation builds has the header
\* Authorization "Token <apiToken of the Client>" and has the Content-Type
\* header "application/json" exactly when the operation supplies a body
\* (CreateBookmark, UpdateBookmark), the operations without a body never;
\* it has no other header.  A request the HTTP client sends to follow a
\* redirect of the remote has that Authorization header when every
\* redirect so far stayed on the hostname of the request before it or led
\* to a subdomain of it, and has none when the redirect leads from the
\* first hostname and its subdomains to any other; it has Content-Type
\* whenever it has a body.
C14_Headers ==
    ret.op # "" =>
        /\ \A k \in BuiltRequests :
              LET r == wire[k].request
              IN  /\ "Authorization" \in DOMAIN r.header
                  /\ r.header["Authorization"] = TokenHeader
                  /\ r.body # None <=> SuppliesBody(ret.op)
                  /\ "Content-Type" \in DOMAIN r.header <=> r.body # None
                  /\ "Content-Type" \in DOMAIN r.header =>
                         r.header["Content-Type"] = <<"application/json">>
                  /\ DOMAIN r.header \subseteq {"Authorization", "Content-Type"}
        /\ \A k \in DOMAIN wire \ BuiltRequests :
              LET r == wire[k].request
              IN  /\ \E j \in 1..(k - 1) : wire[j].reply.kind = "redirect"
                  /\ (\A j \in 2..k :
                         IsDomainOrSubdomain(HostAt(j), HostAt(j - 1))) =>
                         /\ "Authorization" \in DOMAIN r.header
                         /\ r.header["Authorization"] = TokenHeader
                  /\ (~WithinFirst(k) /\ \A j \in 1..(k - 1) : WithinFirst(j)) =>
                         "Authorization" \notin DOMAIN r.header \cup r.maybe
                  /\ r.body # None =>
                         /\ "Content-Type" \in DOMAIN r.header
                         /\ r.header["Content-Type"] = <<"application/json">>

\* C14 witness: CreateBookmark sent its POST with both headers, the remote
\* redirected it to another host, and the request that followed went there
\* with the body and its Content-Type but without the Authorization header.
C14_Witness ==
    /\ ret.op = "CreateBookmark" /\ Len(wire) = 2
    /\ wire[1].request.header["Authorization"] = TokenHeader
    /\ "Content-Type" \in DOMAIN wire[1].request.header
    /\ wire[1].reply.kind = "redirect"
    /\ ~WithinFirst(2)
    /\ wire[2].request.body # None
    /\ "Content-Type" \in DOMAIN wire[2].request.header
    /\ "Authorization" \notin DOMAIN wire[2].request.header

----------------------------------------------------------------------------
(* Properties of the responses.                                            *)

\* C20: no response produced by request handling has both a result and an
\* error: one with the protocol error -32601 or -32602 has no result, and
\* one with a tool result (success or business error) has no protocol
\* error.
C20_ResultXorError ==
    Served =>
        /\ ~(out.Result # None /\ out.Error # None)
        /\ (ProtocolError(CodeMethodNotFound) \/ ProtocolError(CodeInvalidParams)) =>
              out.Result = None /\ out.handler = ""
        /\ out.handler # "" => out.Result # None /\ out.Error = None
        /\ out.Error # None =>
              out.Error[1].Code \in {CodeMethodNotFound, CodeInvalidParams}

\* C20 witness: a tools/call whose params do not decode was answered with
\* -32602 and no result.
C20_Witness ==
    /\ ToolCall /\ impl = "raw" /\ ~RawEnvelope
    /\ ProtocolError(CodeInvalidParams)
    /\ out.Result = None

----------------------------------------------------------------------------
(* Properties of the line-oriented loop.                                   *)

\* A request has been decoded and its response is not yet written.
InHand == pc \in {"handle", "call", "encode"}

\* Run returned because the response in hand could not be written.
EncodeFailed ==
    pc = "returned" /\ runErr[1][1] = Lit("failed to encode response: ")
DecodeFailed ==
    pc = "returned" /\ runErr[1][1] = Lit("failed to decode request: ")

\* C15: in Server.Run one response is written for each request decoded,
\* with that request's ID and in the order of decoding; a request is
\* decoded only when the responses to all earlier ones have been written
\* and nothing is in flight, so at most one Client request is in flight at
\* any time, and only while its handler waits.  (The request in hand, and
\* the one whose response could not be written when Run returned, have no
\* response yet.)
C15_OneResponsePerRequest ==
    /\ [](/\ Len(decoded) = Len(stdout) + (IF InHand \/ EncodeFailed THEN 1 ELSE 0)
          /\ \A k \in 1..Len(stdout) : stdout[k].ID = decoded[k].ID
          /\ Len(inflight) <= 1
          /\ inflight # <<>> <=> pc = "call")
    /\ [][/\ decoded' # decoded =>
                /\ Len(stdout) = Len(decoded)
                /\ inflight = <<>>
                /\ decoded' = Append(decoded, req')
          /\ stdout' # stdout =>
                /\ Len(stdout') = Len(stdout) + 1
                /\ SubSeq(stdout', 1, Len(stdout)) = stdout
                /\ stdout'[Len(stdout')].ID = req.ID
                /\ req = decoded[Len(decoded)]
          /\ inflight' # inflight /\ inflight' # <<>> =>
                /\ inflight = <<>>
                /\ Len(stdout) = Len(decoded) - 1]_vars

\* C15 witness: two requests with different IDs were answered in turn, the
\* second after a Client request had been in flight.
C15_Witness ==
    /\ pc = "decode"
    /\ Len(decoded) = 2 /\ Len(stdout) = 2
    /\ decoded[1].ID # decoded[2].ID
    /\ decoded[2].Method = "tools/call"
    /\ stdout[2].Result # None
    /\ stdout[2].Result[1].Content[1].Text[1] = Lit("Found ")

\* A response of the loop that reports a protocol error or a business error.
IsProtocolError(response) == response.Error # None
IsBusinessError(response) ==
    /\ response.Error = None /\ response.Result # None
    /\ "IsError" \in DOMAIN response.Result[1]
    /\ response.Result[1].IsError

\* C16: Server.Run returns only when decoding a request fails (the end of
\* the input included) or when encoding a response fails, then with an
\* error, and writes nothing after that; after any response is written, a
\* protocol error or a business error as much as a success, the loop is
\* back at decoding the next request.
C16_LoopEndsOnlyOnStreamFailure ==
    /\ [](/\ pc = "returned" <=> runErr # None
          /\ pc = "returned" => DecodeFailed \/ EncodeFailed)
    /\ [][/\ (pc # "returned" /\ pc' = "returned") =>
                /\ stdout' = stdout
                /\ \/ pc = "decode" /\ DecodeFailed'
                   \/ pc = "encode" /\ EncodeFailed'
          /\ pc = "returned" => pc' = "returned" /\ stdout' = stdout
          /\ stdout' # stdout => pc = "encode" /\ pc' = "decode"
          /\ (pc = "handle" \/ pc = "call") => pc' # "returned"]_vars

\* C16 witness: a protocol error was answered, then the next request was
\* decoded and answered with a business error, and the loop is decoding
\* again.
C16_Witness ==
    /\ pc = "decode"
    /\ Len(stdout) = 2
    /\ IsProtocolError(stdout[1])
    /\ IsBusinessError(stdout[2])

\* What a Server that has handled nothing before answers to the request in
\* hand, given the same reply of the remote service.
AnsweredAfresh ==
    LET remote == IF wire # <<>> THEN wire[1].reply
                  ELSE Failure("connection refused")
    IN  Server_handleRequest(NewClient(client.baseURL, client.apiToken),
                             req, remote)

\* C18: the response to a request depends only on the request and on the
\* remote's reply: it is what a Server that has handled nothing before
\* answers, whether or not initialize and notifications/initialized came
\* first; and handling a request changes nothing of the Server (its
\* Client).
C18_NoSessionState ==
    /\ [](pc = "encode" =>
            /\ out = AnsweredAfresh.response @@ [handler |-> AnsweredAfresh.handler]
            /\ calls = AnsweredAfresh.calls
            /\ wire = AnsweredAfresh.sent)
    /\ [][client' = client]_vars

\* C18 witness: a tools/call was answered with a search result in a session
\* whose only earlier request was not initialize.
C18_Witness ==
    /\ pc = "encode"
    /\ Len(decoded) = 2
    /\ decoded[1].Method = "tools/list"
    /\ req.Method = "tools/call"
    /\ wire # <<>> /\ Reply.kind = "http" /\ Reply.status = StatusOK
    /\ out.Result # None /\ ~out.Result[1].IsError

\* C19: every Client call returns: once a request is in flight the handler
\* gets its answer or, after no more than the 30 seconds of the timeout,
\* the timeout error, which it reports as a business error; so every
\* request decoded gets its response produced.
C19_EveryCallReturns ==
    /\ [](elapsed <= ClientTimeoutSeconds)
    /\ []((pc = "encode" /\ wire # <<>>
            /\ wire[1].reply = Failure("Client.Timeout exceeded")) =>
              /\ out.Error = None /\ out.Result # None
              /\ out.Result[1].IsError
              /\ ResultText = <<Lit(FailurePrefixOf(calls[1].op)),
                                Cause("Client.Timeout exceeded")>>)
    /\ (pc = "call") ~> (pc = "encode")
    /\ (pc = "handle") ~> (pc = "encode")

\* C19 witness: the remote never answered, the timer ended the wait, and
\* the handler returned the business error.
C19_Witness ==
    /\ pc = "encode" /\ wire # <<>>
    /\ wire[1].reply = Failure("Client.Timeout exceeded")
    /\ out.Result # None /\ out.Result[1].IsError

----------------------------------------------------------------------------
(* Properties of the concurrent transport.                                 *)

\* What invocation t does when it runs alone, given the remote's reply.
Alone(t, remote) ==
    MCPServer_callTool(client, tasks[t].id, tasks[t].name, tasks[t].args, remote)

\* C17: under RunHTTP, in every interleaving of the invocations' steps, the
\* Client is as NewClient built it (base URL, token, timeout never change),
\* and each invocation sends the request and returns the response, ID
\* included, that it sends and returns when it runs alone with the same
\* reply of the remote: nothing of another invocation's arguments, replies
\* or output shows in it.
C17_Isolation ==
    /\ [](/\ client = NewClient(client.baseURL, APIToken)
          /\ \A t \in Invocations :
                /\ tasks[t].pc = "waiting" =>
                      LET a == Alone(t, Failure("connection refused"))
                      IN  /\ a.sent # <<>>
                          /\ tasks[t].request = a.sent[1].request
                          /\ tasks[t].calls = a.calls
                /\ tasks[t].pc = "done" =>
                      LET a == Alone(t, IF tasks[t].wire # <<>>
                                        THEN tasks[t].wire[1].reply
                                        ELSE Failure("connection refused"))
                      IN  /\ tasks[t].response = a.response
                          /\ tasks[t].response.ID = tasks[t].id
                          /\ tasks[t].wire = a.sent
                          /\ tasks[t].calls = a.calls)
    /\ [][client' = client]_vars

\* C17 witness: two invocations of different tools, with different IDs,
\* overlapped: one has returned its search result while the other still
\* waits for the remote.
C17_Witness ==
    \E t, u \in Invocations :
        /\ tasks[t].pc = "done" /\ tasks[u].pc = "waiting"
        /\ tasks[t].name = "search_bookmarks"
        /\ tasks[u].name = "create_bookmark"
        /\ tasks[t].id # tasks[u].id
        /\ tasks[t].wire # <<>>
        /\ tasks[t].wire[1].reply.kind = "http"
        /\ ~tasks[t].response.Result[1].IsError

----------------------------------------------------------------------------
(* Properties of the tool catalog.                                         *)

\* The responses produced so far in the session, the one about to be
\* written included; the k-th answers decoded[k].
Produced ==
    IF pc = "encode"
    THEN Append(stdout, Response(out.ID, out.Result, out.Error, out.Structured))
    ELSE stdout

ListingAt == {k \in 1..Len(Produced) : decoded[k].Method = "tools/list"}
CallsAt == {k \in 1..Len(Produced) : decoded[k].Method = "tools/call"}

\* The tool names a tools/list response advertises.
Advertised(response) ==
    {response.Result[1].tools[i].name : i \in DOMAIN response.Result[1].tools}

\* The members of a request's params object (none when it is not one).
MembersOf(request) ==
    IF request.Params # None /\ request.Params[1].t = "obj"
    THEN request.Params[1].members ELSE EmptyMap

\* The params are a {name, arguments} envelope (see RawEnvelope).
EnvelopeOf(request) ==
    /\ request.Params # None => request.Params[1].t \in {"null", "obj"}
    /\ \A i \in DOMAIN FieldValues(MembersOf(request), "name") :
           FieldValues(MembersOf(request), "name")[i].t \in {"null", "str"}
    /\ \A i \in DOMAIN FieldValues(MembersOf(request), "arguments") :
           FieldValues(MembersOf(request), "arguments")[i].t \in {"null", "obj"}

\* The tool name a tools/call carries, "" when it carries no string name.
CalledName(request) ==
    IF LastString(FieldValues(MembersOf(request), "name")) = None THEN ""
    ELSE LastString(FieldValues(MembersOf(request), "name"))[1]

\* A response a tool handler produced; the -32601 protocol error.
IsToolResult(response) ==
    /\ response.Error = None /\ response.Result # None
    /\ "Content" \in DOMAIN response.Result[1]
IsNotFound(response) ==
    /\ response.Result = None /\ response.Error # None
    /\ response.Error[1].Code = CodeMethodNotFound

\* C21: in a session of Server.Run, every tools/list is answered with the
\* same list of tools, whatever was handled before it, and the names it
\* advertises are the names tools/call dispatches to a handler: a call
\* naming an advertised tool is never answered with -32601 and, when its
\* params are well formed, is answered by a handler; a call naming any
\* other tool, or none, is answered with -32601 and by no handler.
C21_ListedEqualsCallable ==
    /\ \A k \in ListingAt :
          /\ Produced[k].Error = None /\ Produced[k].Result # None
          /\ "tools" \in DOMAIN Produced[k].Result[1]
          /\ \A i \in ListingAt : Produced[i].Result = Produced[k].Result
          /\ \A j \in CallsAt :
                LET listed == CalledName(decoded[j]) \in Advertised(Produced[k])
                IN  /\ listed => ~IsNotFound(Produced[j])
                    /\ EnvelopeOf(decoded[j]) =>
                          /\ listed <=> IsToolResult(Produced[j])
                          /\ ~listed <=> IsNotFound(Produced[j])
    /\ (pc = "encode" /\ req.Method = "tools/call") =>
          (out.handler # "" <=> IsToolResult(Produced[Len(Produced)]))

\* C21 witness: search_bookmarks was called and answered by its handler,
\* then tools/list was answered and advertises it, and not get_tags.
C21_Witness ==
    /\ pc = "decode" /\ Len(stdout) = 2
    /\ decoded[1].Method = "tools/call"
    /\ CalledName(decoded[1]) = "search_bookmarks"
    /\ IsToolResult(stdout[1]) /\ ~stdout[1].Result[1].IsError
    /\ decoded[2].Method = "tools/list"
    /\ "search_bookmarks" \in Advertised(stdout[2])
    /\ "get_tags" \notin Advertised(stdout[2])

----------------------------------------------------------------------------
(* Properties of the list requests the tools cause.                        *)

\* The tools/call in hand led to a list operation of the Client.
ListCall ==
    /\ ToolCall /\ calls # <<>>
    /\ calls[1].op \in {"GetBookmarks", "GetTags"}

\* The parameters of the k-th request sent: their keys, and those named
\* limit.
SentKeys(k) ==
    {wire[k].request.query[i].key : i \in DOMAIN wire[k].request.query}
SentLimits(k) ==
    {wire[k].request.query[i].val :
        i \in {j \in DOMAIN wire[k].request.query :
                 wire[k].request.query[j].key = "limit"}}

\* C22: a search_bookmarks or get_tags invocation calls the Client's list
\* operation once, with offset 0; no request it causes has an offset
\* parameter, and a limit parameter, when there is one, is a positive
\* integer in decimal.  A negative limit argument reaches the Client as it
\* was supplied, not as the tool's default, and the request then has no
\* limit parameter.
C22_ListRequestParameters ==
    ListCall =>
        /\ Len(calls) = 1
        /\ ToolName # None /\ ToolName[1] \in {"search_bookmarks", "get_tags"}
        /\ calls[1].offset = 0
        /\ \A k \in BuiltRequests :
              /\ "offset" \notin SentKeys(k)
              /\ \A v \in SentLimits(k) :
                    DOMAIN v = {"dec"} /\ v.dec \in Nat \ {0}
        /\ (SuppliedLimit # None /\ SuppliedLimit[1] < 0) =>
              /\ calls[1].limit = SuppliedLimit[1]
              /\ calls[1].limit # DefaultLimitOf(ToolName[1])
              /\ \A k \in BuiltRequests : "limit" \notin SentKeys(k)

\* C22 witness: get_tags was invoked with limit -1, GetTags was called
\* with -1 and its request went out with no parameter at all.
C22_Witness ==
    /\ ListCall /\ impl = "sdk" /\ ToolName = Some("get_tags")
    /\ SuppliedLimit = Some(-1)
    /\ calls[1].limit = -1
    /\ wire # <<>> /\ wire[1].request.query = <<>>

====
